---------------------------- MODULE Spec2Model ----------------------------
(***************************************************************************)
(* LogicGate: the dependency graph (src/logicgate/graph.py).               *)
(*                                                                         *)
(* Text (paths, names, source text, node ids, the rendered context) is a   *)
(* sequence of one-character strings, so that concatenation, containment   *)
(* and length are computed and not assumed.                                *)
(***************************************************************************)
EXTENDS Integers, Sequences, FiniteSets, TLC

(***************************************************************************)
(* Bounds of the model.                                                    *)
(***************************************************************************)
\* largest depth argument passed to get_slice / get_route_context
MaxDepth == 2
\* largest number of call sites inside function bodies in the one-file family
MaxBodyCalls == 2
\* last line of a function definition in the nested-definition family
MaxLine == 4
\* largest number of call sites in the repeated-call family
MaxCallSites == 3

(***************************************************************************)
(* Text helpers.                                                           *)
(***************************************************************************)
Digits == <<"0", "1", "2", "3", "4", "5", "6", "7", "8", "9">>

\* str(n) for an int n >= 0, as the f-string formats a line number
RECURSIVE IntToStr(_)
IntToStr(n) ==
    IF n < 10 THEN <<Digits[n + 1]>>
    ELSE IntToStr(n \div 10) \o <<Digits[(n % 10) + 1]>>

\* t occurs in s as a contiguous substring ("t in s")
Contains(s, t) ==
    \E i \in 1..(Len(s) - Len(t) + 1) : SubSeq(s, i, i + Len(t) - 1) = t

\* s.startswith(t)
StartsWith(s, t) == Len(s) >= Len(t) /\ SubSeq(s, 1, Len(t)) = t

\* sep.join(parts)
RECURSIVE JoinWith(_, _)
JoinWith(parts, sep) ==
    IF parts = <<>> THEN <<>>
    ELSE IF Len(parts) = 1 THEN parts[1]
    ELSE parts[1] \o sep \o JoinWith(Tail(parts), sep)

\* the sequences that list every element of the finite set S exactly once
Orders(S) ==
    {s \in [1..Cardinality(S) -> S] : \A i, j \in DOMAIN s : s[i] = s[j] => i = j}

(***************************************************************************)
(* pathlib, as graph.py uses it, on absolute POSIX paths.  A Path is the   *)
(* sequence of its parts below the root; str(path) puts the "/" back.      *)
(* (An operator takes what it reuses as a parameter: a value, computed     *)
(* once.)                                                                  *)
(***************************************************************************)
\* a component ends: empty and "." components are dropped
PushPart(parts, cur) == IF cur \in {<<>>, <<".">>} THEN parts ELSE Append(parts, cur)

\* Path(text): split on "/"; parts are the components so far, cur the open one
RECURSIVE SplitPath(_, _, _)
SplitPath(text, parts, cur) ==
    IF text = <<>> THEN PushPart(parts, cur)
    ELSE SplitPath(Tail(text),
                   IF Head(text) = "/" THEN PushPart(parts, cur) ELSE parts,
                   IF Head(text) = "/" THEN <<>> ELSE Append(cur, Head(text)))

\* Path(text)
PathOf(text) == SplitPath(text, <<>>, <<>>)

\* str(path)
PathStr(parts) == <<"/">> \o JoinWith(parts, <<"/">>)

\* path.parent
Parent(parts) == IF parts = <<>> THEN <<>> ELSE SubSeq(parts, 1, Len(parts) - 1)

\* path.resolve() without symlinks: ".." removes the part before it
RECURSIVE ResolveParts(_, _)
ResolveParts(parts, acc) ==
    IF parts = <<>> THEN acc
    ELSE ResolveParts(Tail(parts), IF Head(parts) = <<".", ".">> THEN Parent(acc)
                                   ELSE Append(acc, Head(parts)))

\* name.rfind("."), 1-based; 0 when there is no dot
RFindDot(name) ==
    IF \A i \in 1..Len(name) : name[i] # "." THEN 0
    ELSE CHOOSE i \in 1..Len(name) :
            name[i] = "." /\ \A j \in (i + 1)..Len(name) : name[j] # "."

\* PurePath.suffix of a final component whose last dot is at i
SuffixAt(name, i) == IF 1 < i /\ i < Len(name) THEN SubSeq(name, i, Len(name)) ELSE <<>>

\* the final component with its suffix replaced
ReplaceSuffix(name, old, suffix) == SubSeq(name, 1, Len(name) - Len(old)) \o suffix

\* path.with_suffix(suffix); ValueError when the path has an empty name
WithSuffix(parts, suffix) ==
    IF parts = <<>> THEN [tag |-> "raise"]
    ELSE [tag |-> "some",
          val |-> Append(Parent(parts),
                         ReplaceSuffix(parts[Len(parts)],
                                       SuffixAt(parts[Len(parts)], RFindDot(parts[Len(parts)])),
                                       suffix))]

(***************************************************************************)
(* The data models (src/logicgate/models.py).                              *)
(***************************************************************************)
FunctionDef(name, file_path, start_line, end_line, source) ==
    [name |-> name, file_path |-> file_path, start_line |-> start_line,
     end_line |-> end_line, source |-> source]

FunctionCall(name, file_path, line) ==
    [name |-> name, file_path |-> file_path, line |-> line]

ImportInfo(name, path, file_path, line) ==
    [name |-> name, path |-> path, file_path |-> file_path, line |-> line]

RouteInfo(file_path, handler_start_line, handler_end_line, handler_source) ==
    [file_path |-> file_path, handler_start_line |-> handler_start_line,
     handler_end_line |-> handler_end_line, handler_source |-> handler_source]

\* Optional[...]: None, a value, or an exception leaving the callee instead
None == [tag |-> "none"]
Some(v) == [tag |-> "some", val |-> v]
Raise == [tag |-> "raise"]

(***************************************************************************)
(* The state of one DependencyGraph instance, and of the program using it. *)
(***************************************************************************)
VARIABLES
    disk,            \* what the parser extracts: file path -> [defs, calls, imports]
    graph_nodes,     \* self.graph: node id -> node attributes ([data |-> FunctionDef])
    graph_edges,     \* self.graph: set of <<caller id, callee id>>
    file_functions,  \* self._file_functions
    file_calls,      \* self._file_calls
    file_imports,    \* self._file_imports
    file_keys,       \* insertion order of the keys of self._file_calls
    symbol_table,    \* self._symbol_table
    pc,              \* "new", "phase1", "phase2", "built", "returned", "raised";
                     \* "slicing", "collecting" when a query is followed step by step
    walk,            \* build_graph: the source files phase 1 has still to read
    todo,            \* build_graph: the files phase 2 has still to resolve
    op,              \* the operation invoked last, with its arguments
    out,             \* what that operation returned
    frame            \* the local variables of a query that is followed step by step

vars == <<disk, graph_nodes, graph_edges, file_functions, file_calls, file_imports,
          file_keys, symbol_table, pc, walk, todo, op, out, frame>>

\* the instance, as the methods below read and write it: its fields, the files
\* that exist (is_file), and whether an exception has left the method
Self ==
    [nodes |-> graph_nodes, edges |-> graph_edges, file_functions |-> file_functions,
     file_calls |-> file_calls, file_imports |-> file_imports, file_keys |-> file_keys,
     symbol_table |-> symbol_table, fs |-> DOMAIN disk, raised |-> FALSE]

\* dict.get(key, [])
GetOr(d, key) == IF key \in DOMAIN d THEN d[key] ELSE <<>>

\* an identifier without the separator
NodeIdUnseparated(file_path, name) == file_path \o name

\* f"{file_path}:{name}"
NodeId(file_path, name) == file_path \o <<":">> \o name

(***************************************************************************)
(* DependencyGraph: the internal helpers.                                  *)
(***************************************************************************)
\* _resolve_import_path: "for probe in probes: if probe.is_file(): return probe"
first_file(G, probes) ==
    IF \A i \in DOMAIN probes : PathStr(probes[i]) \notin G.fs THEN None
    ELSE Some(probes[CHOOSE i \in DOMAIN probes :
                        /\ PathStr(probes[i]) \in G.fs
                        /\ \A j \in 1..(i - 1) : PathStr(probes[j]) \notin G.fs])

\* _resolve_import_path: the probes list, built before any probe is tested
probe_candidate(G, candidate, js, ts) ==
    IF js.tag = "raise" \/ ts.tag = "raise" THEN Raise
    ELSE first_file(G, <<candidate, js.val, ts.val,
                         Append(candidate, <<"i", "n", "d", "e", "x", ".", "j", "s">>),
                         Append(candidate, <<"i", "n", "d", "e", "x", ".", "t", "s">>)>>)

\* _resolve_import_path, from the resolved candidate on
resolve_candidate(G, candidate) ==
    probe_candidate(G, candidate, WithSuffix(candidate, <<".", "j", "s">>),
                    WithSuffix(candidate, <<".", "t", "s">>))

\* a resolver that follows bare specifiers too
resolve_import_path_any(G, current_file, import_path) ==
    resolve_candidate(G, ResolveParts(Parent(PathOf(current_file)) \o PathOf(import_path),
                                      <<>>))

\* _resolve_import_path: the first probe that is a file, None, or ValueError
resolve_import_path(G, current_file, import_path) ==
    IF ~StartsWith(import_path, <<".">>) THEN None
    ELSE resolve_candidate(G, ResolveParts(Parent(PathOf(current_file)) \o PathOf(import_path),
                                           <<>>))

\* a resolver that returns the candidate without looking it up in the symbol table
import_target_unregistered(G, call_name, resolved_path) ==
    IF resolved_path.tag = "raise" THEN Raise
    ELSE IF resolved_path.tag = "some"
    THEN Some(NodeId(PathStr(resolved_path.val), call_name))
    ELSE None

\* _resolve_call_via_imports: "if resolved_path is not None: ... return candidate_id"
import_target(G, call_name, resolved_path) ==
    IF resolved_path.tag = "raise" THEN Raise
    ELSE IF resolved_path.tag = "some"
            /\ NodeId(PathStr(resolved_path.val), call_name) \in DOMAIN G.symbol_table
    THEN Some(NodeId(PathStr(resolved_path.val), call_name))
    ELSE None

\* _resolve_call_via_imports: the body of the loop, for one import binding
try_import(G, file_path, call_name, imp) ==
    IF imp.name # call_name THEN None
    ELSE import_target(G, call_name, resolve_import_path(G, file_path, imp.path))

\* the loop returns at the first binding that yields a node (or raises)
first_decided(results) ==
    IF \A i \in DOMAIN results : results[i].tag = "none" THEN None
    ELSE results[CHOOSE i \in DOMAIN results :
                    /\ results[i].tag # "none"
                    /\ \A j \in 1..(i - 1) : results[j].tag = "none"]

\* the import bindings of a file, each tried
try_imports(G, file_path, call_name, imports) ==
    [i \in DOMAIN imports |-> try_import(G, file_path, call_name, imports[i])]

\* _resolve_call_via_imports
resolve_call_via_imports(G, file_path, call_name) ==
    first_decided(try_imports(G, file_path, call_name, GetOr(G.file_imports, file_path)))

\* a loop in which the definition seen last encloses
RECURSIVE find_enclosing_loop_last(_, _, _)
find_enclosing_loop_last(defs, line, best) ==
    IF defs = <<>> THEN best
    ELSE find_enclosing_loop_last(Tail(defs), line,
             IF Head(defs).start_line <= line /\ line <= Head(defs).end_line
             THEN Some(Head(defs)) ELSE best)

\* _find_enclosing_function: the loop over the file's definitions, best so far
RECURSIVE find_enclosing_loop(_, _, _)
find_enclosing_loop(defs, line, best) ==
    IF defs = <<>> THEN best
    ELSE find_enclosing_loop(Tail(defs), line,
             IF /\ Head(defs).start_line <= line
                /\ line <= Head(defs).end_line
                /\ (best.tag = "none"
                    \/ (Head(defs).end_line - Head(defs).start_line)
                         < (best.val.end_line - best.val.start_line))
             THEN Some(Head(defs)) ELSE best)

\* "return best.name if best else None"
name_of(best) == IF best.tag = "some" THEN Some(best.val.name) ELSE None

\* _find_enclosing_function: the name of the enclosing definition, or None
find_enclosing_function(G, file_path, line) ==
    name_of(find_enclosing_loop(GetOr(G.file_functions, file_path), line, None))

\* a graph that keeps no self-loop
AddEdgeNoLoop(G, u, v) ==
    IF u = v THEN G
    ELSE [G EXCEPT !.nodes = [n \in DOMAIN G.nodes \cup {u, v} |->
                                 IF n \in DOMAIN G.nodes THEN G.nodes[n] ELSE [data |-> None]],
                   !.edges = @ \cup {<<u, v>>}]

\* self.graph.add_edge(u, v): networkx adds a missing endpoint, without attributes
AddEdge(G, u, v) ==
    [G EXCEPT !.nodes = [n \in DOMAIN G.nodes \cup {u, v} |->
                            IF n \in DOMAIN G.nodes THEN G.nodes[n] ELSE [data |-> None]],
              !.edges = @ \cup {<<u, v>>}]

\* _resolve_calls: "2) Import-based resolution"
add_import_edge(G, caller_id, resolved) ==
    IF resolved.tag = "raise" THEN [G EXCEPT !.raised = TRUE]
    ELSE IF resolved.tag = "some" /\ caller_id \in DOMAIN G.nodes
    THEN AddEdge(G, caller_id, resolved.val)
    ELSE G

\* _resolve_calls: "1) Same-file resolution"
add_local_edge(G, caller_id, callee_id) ==
    IF caller_id \in DOMAIN G.nodes /\ callee_id \in DOMAIN G.nodes
    THEN AddEdge(G, caller_id, callee_id)
    ELSE G

\* local_defs = {d.name: d for d in self._file_functions.get(file_path, [])}
local_defs(defs) == {defs[i].name : i \in DOMAIN defs}

\* a loop body that tries the imports before the file's own definitions
add_call_edge_imports_first(G, file_path, call, caller_name) ==
    IF caller_name.tag = "none" \/ caller_name.val = <<>> THEN G
    ELSE IF resolve_call_via_imports(G, file_path, call.name).tag # "none"
    THEN add_import_edge(G, NodeId(file_path, caller_name.val),
                         resolve_call_via_imports(G, file_path, call.name))
    ELSE IF call.name \in local_defs(GetOr(G.file_functions, file_path))
    THEN add_local_edge(G, NodeId(file_path, caller_name.val), NodeId(file_path, call.name))
    ELSE G

\* _resolve_calls: the body of the loop once the caller is known
add_call_edge(G, file_path, call, caller_name) ==
    IF caller_name.tag = "none" \/ caller_name.val = <<>> THEN G
    ELSE IF call.name \in local_defs(GetOr(G.file_functions, file_path))
    THEN add_local_edge(G, NodeId(file_path, caller_name.val), NodeId(file_path, call.name))
    ELSE add_import_edge(G, NodeId(file_path, caller_name.val),
                         resolve_call_via_imports(G, file_path, call.name))

\* _resolve_calls: the body of the loop, for one call site
resolve_call_site(G, file_path, call) ==
    add_call_edge(G, file_path, call, find_enclosing_function(G, file_path, call.line))

\* _resolve_calls(file_path, calls): the loop over the call sites of one file;
\* an exception ends it
RECURSIVE resolve_calls(_, _, _)
resolve_calls(G, file_path, calls) ==
    IF calls = <<>> \/ G.raised THEN G
    ELSE resolve_calls(resolve_call_site(G, file_path, Head(calls)), file_path, Tail(calls))

(***************************************************************************)
(* DependencyGraph: the public API.                                        *)
(***************************************************************************)
\* the nodes one hop from the frontier that were not seen before
children_of(edges, seen, frontier) ==
    {e[2] : e \in {d \in edges : d[1] \in frontier}} \ seen

\* one level of the breadth-first search
RECURSIVE bfs_levels(_, _, _, _)
bfs_next(edges, seen, children, depth_limit) ==
    bfs_levels(edges, seen \cup children, children, depth_limit - 1)

\* a search that ignores depth_limit and stops only when no node is new
RECURSIVE bfs_levels_unbounded(_, _, _, _)
bfs_levels_unbounded(edges, seen, frontier, depth_limit) ==
    IF frontier = {} THEN seen
    ELSE bfs_levels_unbounded(edges, seen \cup children_of(edges, seen, frontier),
                              children_of(edges, seen, frontier), depth_limit)

\* nx.bfs_edges(graph, source, depth_limit): breadth-first, level by level, from
\* the nodes seen so far and the last level found; the nodes it has reached
bfs_levels(edges, seen, frontier, depth_limit) ==
    IF depth_limit <= 0 \/ frontier = {} THEN seen
    ELSE bfs_next(edges, seen, children_of(edges, seen, frontier), depth_limit)

\* a search that goes one level beyond depth_limit
bfs_edges_one_more(edges, source, depth_limit) ==
    bfs_levels(edges, {source}, {source}, depth_limit + 1) \ {source}

\* the v of every edge (u, v) that nx.bfs_edges yields
bfs_edges(edges, source, depth_limit) ==
    bfs_levels(edges, {source}, {source}, depth_limit) \ {source}

\* a slice that never follows an edge
reachable_without_search(G, node_id, depth) == {node_id}

\* get_slice: "reachable = {node_id}; for _u, v in nx.bfs_edges(...): reachable.add(v)"
reachable_from(G, node_id, depth) == {node_id} \cup bfs_edges(G.edges, node_id, depth)

\* get_slice: "for nid in reachable: ... if data is not None: result.append(data)"
slice_result(G, listed) ==
    [i \in 1..Len(listed) |-> G.nodes[listed[i]].data.val]

\* iterating the set: its members in the order this interpreter lists them
iterate(G, reachable, order) ==
    SelectSeq(order, LAMBDA nid : nid \in reachable /\ G.nodes[nid].data.tag = "some")

\* a get_slice without the test for an unknown node, which lists the node it
\* was asked for with no definition
get_slice_unguarded(G, node_id, depth, order) ==
    IF node_id \notin DOMAIN G.nodes THEN <<None>>
    ELSE slice_result(G, iterate(G, reachable_from(G, node_id, depth), order))

\* node_count: self.graph.number_of_nodes()
node_count(G) == Cardinality(DOMAIN G.nodes)

\* edge_count: self.graph.number_of_edges()
edge_count(G) == Cardinality(G.edges)

\* get_slice(node_id, depth); `order` is the order in which this interpreter
\* iterates a set of node ids (it lists every node id once)
get_slice(G, node_id, depth, order) ==
    IF node_id \notin DOMAIN G.nodes THEN <<>>
    ELSE slice_result(G, iterate(G, reachable_from(G, node_id, depth), order))

\* a handler range that excludes its two bounds
calls_in_handler_exclusive(G, route) ==
    SelectSeq(GetOr(G.file_calls, route.file_path),
              LAMBDA call : route.handler_start_line < call.line
                            /\ call.line < route.handler_end_line)

\* get_route_context: "for call in self._file_calls.get(file_path, [])"
calls_in_handler(G, route) ==
    SelectSeq(GetOr(G.file_calls, route.file_path),
              LAMBDA call : route.handler_start_line <= call.line
                            /\ call.line <= route.handler_end_line)

\* get_route_context: "for fdef in self.get_slice(...)": append the unseen ones
RECURSIVE collect_slice(_, _)
collect_slice(acc, fdefs) ==
    IF fdefs = <<>> THEN acc
    ELSE collect_slice(
             IF NodeId(Head(fdefs).file_path, Head(fdefs).name) \in acc.seen_node_ids THEN acc
             ELSE [acc EXCEPT
                     !.seen_node_ids = @ \cup {NodeId(Head(fdefs).file_path, Head(fdefs).name)},
                     !.all_defs = Append(@, Head(fdefs))],
             Tail(fdefs))

\* get_route_context: the slice of a resolved call, unless its node was seen
collect_resolved(G, depth, order, acc, resolved) ==
    IF resolved.tag = "raise" THEN [acc EXCEPT !.raised = TRUE]
    ELSE IF resolved.tag = "some" /\ resolved.val \notin acc.seen_node_ids
    THEN collect_slice(acc, get_slice(G, resolved.val, depth, order))
    ELSE acc

\* get_route_context: same-file resolution first, then imported-file resolution
resolve_in_context(G, file_path, call_name) ==
    IF NodeId(file_path, call_name) \in DOMAIN G.symbol_table
    THEN Some(NodeId(file_path, call_name))
    ELSE resolve_call_via_imports(G, file_path, call_name)

\* get_route_context: the body of "for call in calls_in_handler", for one call
collect_call(G, file_path, call, depth, order, acc) ==
    collect_resolved(G, depth, order, acc, resolve_in_context(G, file_path, call.name))

\* get_route_context: "for call in calls_in_handler"; an exception ends it
RECURSIVE collect_calls(_, _, _, _, _, _)
collect_calls(G, file_path, calls, depth, order, acc) ==
    IF calls = <<>> \/ acc.raised THEN acc
    ELSE collect_calls(G, file_path, Tail(calls), depth, order,
                       collect_call(G, file_path, Head(calls), depth, order, acc))

\* the header line of a block
Header(file_path, start_line, end_line) ==
    <<"/", "/", " ", "F", "i", "l", "e", ":", " ">> \o file_path
    \o <<",", " ", "L", "i", "n", "e", "s", " ">> \o IntToStr(start_line)
    \o <<"-">> \o IntToStr(end_line) \o <<"\n">>

\* a fallback that is the handler source alone
render_source_only(route) == route.handler_source

\* get_route_context: the fallback string
render_fallback(route) ==
    Header(route.file_path, route.handler_start_line, route.handler_end_line)
    \o route.handler_source \o <<"\n">>

\* get_route_context: one entry of parts
render_part(fdef) == Header(fdef.file_path, fdef.start_line, fdef.end_line) \o fdef.source

\* parts joined by a single newline
render_defs_newline(all_defs) ==
    JoinWith([i \in 1..Len(all_defs) |-> render_part(all_defs[i])], <<"\n">>)
    \o <<"\n">>

\* get_route_context: "\n\n".join(parts) + "\n"
render_defs(all_defs) ==
    JoinWith([i \in 1..Len(all_defs) |-> render_part(all_defs[i])], <<"\n", "\n">>)
    \o <<"\n">>

\* get_route_context: "if not all_defs: return ...", else the rendered parts
render(route, acc) ==
    IF acc.raised THEN [raised |-> TRUE, text |-> <<>>, all_defs |-> <<>>]
    ELSE [raised |-> FALSE,
          text |-> IF acc.all_defs = <<>> THEN render_fallback(route)
                   ELSE render_defs(acc.all_defs),
          all_defs |-> acc.all_defs]

\* get_route_context(route, depth): the string returned and the all_defs it was
\* rendered from, or that an exception left the method
get_route_context(G, route, depth, order) ==
    render(route, collect_calls(G, route.file_path, calls_in_handler(G, route), depth, order,
                                [seen_node_ids |-> {}, all_defs |-> <<>>, raised |-> FALSE]))

(***************************************************************************)
(* What the parser delivers: the source trees the model is run on.         *)
(***************************************************************************)
NameF == <<"f">>
NameG == <<"g">>
NameH == <<"h">>
NameK == <<"k">>
\* a callee no file defines (a library method such as sendFile)
NameX == <<"x">>

PathA == <<"/", "a", ".", "j", "s">>
PathB == <<"/", "b", ".", "j", "s">>
\* a path no source file has
PathZ == <<"/", "z", ".", "j", "s">>

\* the source text of the i-th definition of a file
SourceText(name, i) == name \o <<"{", "\n", Digits[i + 1], "}">>

\* the handler source text of a route
HandlerText(start_line) == <<"h">> \o IntToStr(start_line) \o <<"(", ")">>

RoutesAt(file_path, ranges) ==
    {RouteInfo(file_path, r[1], r[2], HandlerText(r[1])) : r \in ranges}

\* Family 1: two files.  Each defines f, or f and g, or f twice, or nothing;
\* the body of f (line 2) may hold one call; the file may bind g by an import
\* (relative, bare, bare with the file's extension, or the directory itself);
\* lines 5 and 6 hold top-level calls, the place of the route handlers of /a.js.
TwoFileDefs(p) ==
    {<<>>,
     <<FunctionDef(NameF, p, 1, 2, SourceText(NameF, 1))>>,
     <<FunctionDef(NameF, p, 1, 2, SourceText(NameF, 1)),
       FunctionDef(NameG, p, 3, 4, SourceText(NameG, 2))>>,
     <<FunctionDef(NameF, p, 1, 2, SourceText(NameF, 1)),
       FunctionDef(NameF, p, 3, 4, SourceText(NameF, 2))>>}

TwoFileBodyCalls(p) ==
    {<<>>} \cup {<<FunctionCall(n, p, 2)>> : n \in {NameF, NameG, NameX}}

TwoFileImports(p, other) ==
    {<<>>} \cup {<<ImportInfo(NameG, spec, p, 9)>> :
                    spec \in {<<".", "/">> \o other, other, other \o <<".", "j", "s">>, <<".">>}}

TwoFileRanges == {<<5, 5>>, <<5, 6>>, <<6, 6>>, <<7, 7>>, <<2, 2>>}

TwoFileFacts(p, other, ranges) ==
    {[defs |-> d,
      calls |-> b \o <<FunctionCall(NameG, p, 5), FunctionCall(NameX, p, 6)>>,
      imports |-> i,
      routes |-> RoutesAt(p, ranges)] :
        d \in TwoFileDefs(p), b \in TwoFileBodyCalls(p), i \in TwoFileImports(p, other)}

TwoFileDisks ==
    {[p \in {PathA, PathB} |-> IF p = PathA THEN fa ELSE fb] :
        fa \in TwoFileFacts(PathA, <<"b">>, TwoFileRanges),
        fb \in TwoFileFacts(PathB, <<"a">>, {})}
    \cup {[p \in {PathA} |-> fa] : fa \in TwoFileFacts(PathA, <<"b">>, TwoFileRanges)}

\* Family 2: one file defining f, g, h and k on lines 1-2, 3-4, 5-6 and 7-8,
\* with any set of at most MaxBodyCalls calls between them (a call of the i-th
\* function is on its second line), and top-level calls of f, g, k, h and x on
\* lines 9 to 13, the place of the route handlers.
OneFileNames == <<NameF, NameG, NameH, NameK>>

OneFileDefs ==
    [i \in 1..4 |-> FunctionDef(OneFileNames[i], PathA, 2 * i - 1, 2 * i,
                                SourceText(OneFileNames[i], i))]

\* every (caller, callee) pair, in the order of the call sites in the file
OneFilePairs == [n \in 1..16 |-> <<((n - 1) \div 4) + 1, ((n - 1) % 4) + 1>>]

OneFileRanges ==
    {<<9, 9>>, <<9, 10>>, <<9, 11>>, <<9, 12>>, <<9, 13>>, <<10, 11>>, <<13, 13>>, <<14, 14>>}

\* the call sites inside the function bodies, in the order of their lines
OneFileBody(chosen) ==
    [n \in 1..Len(chosen) |->
        FunctionCall(OneFileNames[chosen[n][2]], PathA, 2 * chosen[n][1])]

OneFileFacts(pairs) ==
        [defs |-> OneFileDefs,
         calls |-> OneFileBody(SelectSeq(OneFilePairs, LAMBDA pr : pr \in pairs))
                   \o <<FunctionCall(NameF, PathA, 9), FunctionCall(NameG, PathA, 10),
                             FunctionCall(NameK, PathA, 11), FunctionCall(NameH, PathA, 12),
                             FunctionCall(NameX, PathA, 13)>>,
         imports |-> <<>>,
         routes |-> RoutesAt(PathA, OneFileRanges)]

\* the sets of at most n (caller, callee) pairs
RECURSIVE PairSets(_)
PairSets(n) ==
    IF n = 0 THEN {{}}
    ELSE {ps \cup {pr} : ps \in PairSets(n - 1), pr \in (1..4) \X (1..4)} \cup {{}}

OneFilePairSets == PairSets(MaxBodyCalls)

OneFileDisks ==
    {[p \in {PathA} |-> OneFileFacts(pairs)] :
        pairs \in OneFilePairSets}

\* Family 3: the trees a directory holds between two builds.  /a.js defines f,
\* or f and g, calls g inside f (line 2) and at top level (line 5, the handler),
\* and may import g from "./b"; /b.js, which defines f and g, may be absent.
RebuildFactsA ==
    {[defs |-> d,
      calls |-> <<FunctionCall(NameG, PathA, 2), FunctionCall(NameG, PathA, 5)>>,
      imports |-> i,
      routes |-> RoutesAt(PathA, {<<5, 5>>})] :
        d \in {<<FunctionDef(NameF, PathA, 1, 2, SourceText(NameF, 1))>>,
               <<FunctionDef(NameF, PathA, 1, 2, SourceText(NameF, 1)),
                 FunctionDef(NameG, PathA, 3, 4, SourceText(NameG, 2))>>},
        i \in {<<>>, <<ImportInfo(NameG, <<".", "/", "b">>, PathA, 9)>>}}

RebuildFactsB ==
    [defs |-> <<FunctionDef(NameF, PathB, 1, 2, SourceText(NameF, 1)),
                FunctionDef(NameG, PathB, 3, 4, SourceText(NameG, 2))>>,
     calls |-> <<FunctionCall(NameG, PathB, 2)>>,
     imports |-> <<>>,
     routes |-> {}]

RebuildDisks ==
    {[p \in {PathA, PathB} |-> IF p = PathA THEN fa ELSE RebuildFactsB] : fa \in RebuildFactsA}
    \cup {[p \in {PathA} |-> fa] : fa \in RebuildFactsA}

\* Family 4: the one file of family 2 with the call graphs a traversal has to
\* get out of: none, a self-loop, a cycle of two, a cycle of three, a chain, a
\* diamond, a chain into a self-loop.
StepPairSets ==
    {{}, {<<1, 1>>}, {<<1, 2>>, <<2, 1>>}, {<<1, 2>>, <<2, 3>>, <<3, 1>>},
     {<<1, 2>>, <<2, 3>>, <<3, 4>>}, {<<1, 2>>, <<1, 3>>, <<2, 4>>, <<3, 4>>},
     {<<1, 2>>, <<2, 2>>}}

StepDisks == {[p \in {PathA} |-> OneFileFacts(pairs)] : pairs \in StepPairSets}

\* Family 5: one file with up to three definitions f, g, h whose line ranges
\* lie in 1..MaxLine and are nested or disjoint, as lexical scopes are, in any
\* order of the parser's matches; line 2 holds a call of f.
NestedRanges == {r \in (1..MaxLine) \X (1..MaxLine) : r[1] <= r[2]}

Laminar(r, s) ==
    \/ r[2] < s[1]
    \/ s[2] < r[1]
    \/ (r[1] <= s[1] /\ s[2] <= r[2])
    \/ (s[1] <= r[1] /\ r[2] <= s[2])

NestedRangeSeqs ==
    {<<>>}
    \cup {<<r>> : r \in NestedRanges}
    \cup {pr \in NestedRanges \X NestedRanges : Laminar(pr[1], pr[2])}
    \cup {<<r, s, t>> : r \in {<<1, MaxLine>>, <<2, 3>>, <<2, 2>>},
                        s \in {<<1, MaxLine>>, <<2, 3>>, <<2, 2>>},
                        t \in {<<1, MaxLine>>, <<2, 3>>, <<2, 2>>}}

NestedNames == <<NameF, NameG, NameH>>

NestedFacts(ranges) ==
    [defs |-> [i \in DOMAIN ranges |->
                  FunctionDef(NestedNames[i], PathA, ranges[i][1], ranges[i][2],
                              SourceText(NestedNames[i], i))],
     calls |-> <<FunctionCall(NameF, PathA, 2)>>,
     imports |-> <<>>,
     routes |-> {}]

NestedDisks == {[p \in {PathA} |-> NestedFacts(ranges)] : ranges \in NestedRangeSeqs}

\* Family 6: /a.js defines f, calls g inside f and imports g by a relative
\* specifier; beside it up to three of the files a probe can hit, all defining
\* g or all defining only f.
PathBts == <<"/", "b", ".", "t", "s">>
PathBv == <<"/", "b", ".", "v", ".", "j", "s">>
PathIndexJs == <<"/", "b", "/", "i", "n", "d", "e", "x", ".", "j", "s">>
PathIndexTs == <<"/", "b", "/", "i", "n", "d", "e", "x", ".", "t", "s">>

ImportTargets == {PathB, PathBts, PathBv, PathIndexJs, PathIndexTs}

\* the specifiers written in /a.js
DiskSpecifiers == {<<".", "/", "b">>, <<".", "/", "b", ".", "v">>, <<".", "/", "b", ".", "j", "s">>}

\* the specifiers the resolver is asked about
ImportSpecifiers ==
    DiskSpecifiers \cup {<<".">>, <<"b">>, <<".", "/", "c">>, <<".", "/", "b", "/", "index">>}

ImporterFacts(spec) ==
    [defs |-> <<FunctionDef(NameF, PathA, 1, 2, SourceText(NameF, 1))>>,
     calls |-> <<FunctionCall(NameG, PathA, 2)>>,
     imports |-> <<ImportInfo(NameG, spec, PathA, 9)>>,
     routes |-> {}]

TargetFacts(p, name) ==
    [defs |-> <<FunctionDef(name, p, 1, 2, SourceText(name, 1))>>,
     calls |-> <<>>,
     imports |-> <<>>,
     routes |-> {}]

ImportDisks ==
    {[p \in {PathA} \cup targets |->
         IF p = PathA THEN ImporterFacts(spec) ELSE TargetFacts(p, name)] :
        targets \in {t \in SUBSET ImportTargets : Cardinality(t) <= 3},
        name \in {NameG, NameF},
        spec \in DiskSpecifiers}

\* Family 7: /a.js defines f (lines 1-3) and g (lines 4-6), imports h from
\* /b.js, which defines it, and holds up to MaxCallSites call sites, each a call
\* of f, g, h or x inside f (line 2), inside g (line 5) or at top level (line
\* 8); a call site may repeat another.
EdgeCallSites == {FunctionCall(n, PathA, l) : n \in {NameF, NameG, NameH, NameX}, l \in {2, 5, 8}}

EdgeCallSeqs == UNION {[1..k -> EdgeCallSites] : k \in 0..MaxCallSites}

EdgeFactsA(calls) ==
    [defs |-> <<FunctionDef(NameF, PathA, 1, 3, SourceText(NameF, 1)),
                FunctionDef(NameG, PathA, 4, 6, SourceText(NameG, 2))>>,
     calls |-> calls,
     imports |-> <<ImportInfo(NameH, <<".", "/", "b">>, PathA, 9)>>,
     routes |-> {}]

EdgeDisks ==
    {[p \in {PathA, PathB} |->
         IF p = PathA THEN EdgeFactsA(calls) ELSE TargetFacts(PathB, NameH)] :
        calls \in EdgeCallSeqs}

\* the entry points a caller passes: the routes found in the files, and one
\* whose file has no recorded facts
Routes == UNION {disk[p].routes : p \in DOMAIN disk} \cup RoutesAt(PathZ, {<<1, 3>>})

\* the node ids a caller passes to get_slice
QueryIds ==
    DOMAIN graph_nodes \cup {NodeId(PathA, NameX), NodeId(PathB, NameG), NodeId(PathZ, NameF)}

(***************************************************************************)
(* build_graph.                                                            *)
(***************************************************************************)
\* the characters of the model's paths, in code point order
Ascii == <<".", "/", "a", "b", "d", "e", "i", "j", "n", "s", "t", "v", "x", "z">>

CharCode(c) == CHOOSE i \in DOMAIN Ascii : Ascii[i] = c

\* s < t for two str
RECURSIVE StrLess(_, _)
StrLess(s, t) ==
    IF t = <<>> THEN FALSE
    ELSE IF s = <<>> THEN TRUE
    ELSE IF Head(s) # Head(t) THEN CharCode(Head(s)) < CharCode(Head(t))
    ELSE StrLess(Tail(s), Tail(t))

\* p < q for two Path: their parts compare as lists of str
RECURSIVE PartsLess(_, _)
PartsLess(p, q) ==
    IF q = <<>> THEN FALSE
    ELSE IF p = <<>> THEN TRUE
    ELSE IF Head(p) # Head(q) THEN StrLess(Head(p), Head(q))
    ELSE PartsLess(Tail(p), Tail(q))

\* _walk_sources: sorted(directory.rglob("*")), the source files only
walk_sources(files) ==
    CHOOSE order \in Orders(files) :
        \A i, j \in DOMAIN order : i < j => PartsLess(PathOf(order[i]), PathOf(order[j]))

\* d[key] = value
DictSet(d, key, value) ==
    [k \in DOMAIN d \cup {key} |-> IF k = key THEN value ELSE d[k]]

\* a registration keyed by the function name alone
register_def_by_name(G, node_id, fdef) ==
    [G EXCEPT !.symbol_table = DictSet(@, fdef.name, fdef),
              !.nodes = DictSet(@, fdef.name, [data |-> Some(fdef)])]

\* a registration that keeps the definition registered first
register_def_keep_first(G, node_id, fdef) ==
    IF node_id \in DOMAIN G.symbol_table THEN G
    ELSE [G EXCEPT !.symbol_table = DictSet(@, node_id, fdef),
                   !.nodes = DictSet(@, node_id, [data |-> Some(fdef)])]

\* build_graph: the body of "for fdef in defs"
register_def(G, node_id, fdef) ==
    [G EXCEPT !.symbol_table = DictSet(@, node_id, fdef),
              !.nodes = DictSet(@, node_id, [data |-> Some(fdef)])]

\* build_graph: "for fdef in defs"
RECURSIVE register_defs(_, _, _)
register_defs(G, str_path, defs) ==
    IF defs = <<>> THEN G
    ELSE register_defs(register_def(G, NodeId(str_path, Head(defs).name), Head(defs)),
                       str_path, Tail(defs))

\* build_graph: the three fact stores take what the parser found in the file
store_facts(G, str_path, facts) ==
    [G EXCEPT !.file_functions = DictSet(@, str_path, facts.defs),
              !.file_calls = DictSet(@, str_path, facts.calls),
              !.file_imports = DictSet(@, str_path, facts.imports),
              !.file_keys = IF str_path \in DOMAIN G.file_calls THEN @
                            ELSE Append(@, str_path)]

\* build_graph, phase 1, the body of the loop for one source file
phase1_file(G, str_path, facts) ==
    register_defs(store_facts(G, str_path, facts), str_path, facts.defs)

\* build_graph, phase 2, the body of the loop for one file
phase2_file(G, file_path) == resolve_calls(G, file_path, G.file_calls[file_path])

\* build_graph, phase 1: "for source_path in self._walk_sources(directory)"
RECURSIVE phase1(_, _, _)
phase1(G, files, order) ==
    IF order = <<>> THEN G
    ELSE phase1(phase1_file(G, Head(order), files[Head(order)]), files, Tail(order))

\* build_graph, phase 2: "for file_path, calls in self._file_calls.items()"
RECURSIVE phase2(_, _)
phase2(G, keys) ==
    IF keys = <<>> \/ G.raised THEN G
    ELSE phase2(phase2_file(G, Head(keys)), Tail(keys))

\* phase 2 over the files phase 1 has stored
phase2_stored(G) == phase2(G, G.file_keys)

\* a build in one pass: the calls of a file are resolved as soon as it is read
RECURSIVE one_pass(_, _, _)
one_pass(G, files, order) ==
    IF order = <<>> \/ G.raised THEN G
    ELSE one_pass(phase2_file(phase1_file(G, Head(order), files[Head(order)]), Head(order)),
                  files, Tail(order))

build_graph_one_pass(G, files, order) == one_pass(G, files, order)

\* build_graph as a whole, reading the files in the given order
build_graph(G, files, order) == phase2_stored(phase1(G, files, order))

(***************************************************************************)
(* The program: build_graph, then queries.                                 *)
(***************************************************************************)
NoOp == [name |-> "none"]
NoOut == [raised |-> FALSE]
NoFrame == [tag |-> "none"]

\* DependencyGraph.__init__
NewInstance(fs) ==
    [nodes |-> <<>>, edges |-> {}, file_functions |-> <<>>, file_calls |-> <<>>,
     file_imports |-> <<>>, file_keys |-> <<>>, symbol_table |-> <<>>, fs |-> fs,
     raised |-> FALSE]

\* the instance is G from now on
Becomes(G) ==
    /\ graph_nodes' = G.nodes
    /\ graph_edges' = G.edges
    /\ file_functions' = G.file_functions
    /\ file_calls' = G.file_calls
    /\ file_imports' = G.file_imports
    /\ file_keys' = G.file_keys
    /\ symbol_table' = G.symbol_table

InitInstance ==
    /\ graph_nodes = <<>>
    /\ graph_edges = {}
    /\ file_functions = <<>>
    /\ file_calls = <<>>
    /\ file_imports = <<>>
    /\ file_keys = <<>>
    /\ symbol_table = <<>>
    /\ pc = "new"
    /\ walk = <<>>
    /\ todo = <<>>
    /\ op = NoOp
    /\ out = NoOut
    /\ frame = NoFrame

Init == disk \in TwoFileDisks /\ InitInstance

InitOneFile == disk \in OneFileDisks /\ InitInstance

\* build_graph is entered
BuildGraph ==
    /\ pc = "new"
    /\ walk' = walk_sources(DOMAIN disk)
    /\ pc' = "phase1"
    /\ UNCHANGED <<disk, graph_nodes, graph_edges, file_functions, file_calls,
                   file_imports, file_keys, symbol_table, todo, op, out>>
    /\ UNCHANGED frame

\* build_graph, phase 1, one source file: store its facts, register its nodes
Phase1File ==
    /\ pc = "phase1"
    /\ walk # <<>>
    /\ Becomes(phase1_file(Self, Head(walk), disk[Head(walk)]))
    /\ walk' = Tail(walk)
    /\ UNCHANGED <<disk, pc, todo, op, out>>
    /\ UNCHANGED frame

\* build_graph: phase 1 has read every file, phase 2 begins
Phase2Start ==
    /\ pc = "phase1"
    /\ walk = <<>>
    /\ pc' = "phase2"
    /\ todo' = file_keys
    /\ UNCHANGED <<disk, graph_nodes, graph_edges, file_functions, file_calls,
                   file_imports, file_keys, symbol_table, walk, op, out>>
    /\ UNCHANGED frame

\* the instance after _resolve_calls, or its exception leaving build_graph
Resolved(G) == Becomes(G) /\ pc' = IF G.raised THEN "raised" ELSE "phase2"

\* build_graph, phase 2, one file: _resolve_calls
Phase2File ==
    /\ pc = "phase2"
    /\ todo # <<>>
    /\ Resolved(phase2_file(Self, Head(todo)))
    /\ todo' = Tail(todo)
    /\ UNCHANGED <<disk, walk, op, out>>
    /\ UNCHANGED frame

\* build_graph returns
BuildDone ==
    /\ pc = "phase2"
    /\ todo = <<>>
    /\ pc' = "built"
    /\ UNCHANGED <<disk, graph_nodes, graph_edges, file_functions, file_calls,
                   file_imports, file_keys, symbol_table, walk, todo, op, out>>
    /\ UNCHANGED frame

\* the registered nodes get_slice(node_id, depth) puts in its set
slice_members(G, node_id, depth) == reachable_from(G, node_id, depth) \cap DOMAIN G.nodes

\* the callee names of the call sites inside the handler of the route
handler_names(calls) == {calls[i].name : i \in DOMAIN calls}

\* the registered nodes a get_route_context(route, depth) can put in a set: those
\* within depth hops of a node that carries the name of a callee of the handler
context_starts(G, names) ==
    {n \in DOMAIN G.nodes : G.nodes[n].data.tag = "some" /\ G.nodes[n].data.val.name \in names}

context_members(G, route, depth) ==
    UNION {slice_members(G, n, depth) :
              n \in context_starts(G, handler_names(calls_in_handler(G, route)))}

\* a get_slice that adds the node it is asked for to the graph
GetSliceRegistering ==
    /\ pc = "built"
    /\ \E node_id \in QueryIds, depth \in 0..MaxDepth :
          \E order \in Orders(slice_members(Self, node_id, depth)) :
              /\ op' = [name |-> "get_slice", node_id |-> node_id, depth |-> depth]
              /\ out' = [raised |-> FALSE, ret |-> get_slice(Self, node_id, depth, order)]
              /\ graph_nodes' = [n \in DOMAIN graph_nodes \cup {node_id} |->
                                    IF n \in DOMAIN graph_nodes THEN graph_nodes[n]
                                    ELSE [data |-> None]]
    /\ pc' = "returned"
    /\ UNCHANGED <<disk, graph_edges, file_functions, file_calls,
                   file_imports, file_keys, symbol_table, walk, todo, frame>>

\* a caller invokes get_slice; the interpreter's hash seed decides the order in
\* which the set of reachable node ids is iterated
GetSlice ==
    /\ pc = "built"
    /\ \E node_id \in QueryIds, depth \in 0..MaxDepth :
          \E order \in Orders(slice_members(Self, node_id, depth)) :
              /\ op' = [name |-> "get_slice", node_id |-> node_id, depth |-> depth]
              /\ out' = [raised |-> FALSE, ret |-> get_slice(Self, node_id, depth, order)]
    /\ pc' = "returned"
    /\ UNCHANGED <<disk, graph_nodes, graph_edges, file_functions, file_calls,
                   file_imports, file_keys, symbol_table, walk, todo>>
    /\ UNCHANGED frame

\* get_route_context returns its string, or an exception leaves it
Returned(r) == out' = r /\ pc' = IF r.raised THEN "raised" ELSE "returned"

\* a caller invokes get_route_context
GetRouteContext ==
    /\ pc = "built"
    /\ \E route \in Routes, depth \in 0..MaxDepth :
          \E order \in Orders(context_members(Self, route, depth)) :
              /\ op' = [name |-> "get_route_context", route |-> route, depth |-> depth]
              /\ Returned(get_route_context(Self, route, depth, order))
    /\ UNCHANGED <<disk, graph_nodes, graph_edges, file_functions, file_calls,
                   file_imports, file_keys, symbol_table, walk, todo>>
    /\ UNCHANGED frame

\* the caller has used the result
Return ==
    /\ pc = "returned"
    /\ pc' = "built"
    /\ op' = NoOp
    /\ out' = NoOut
    /\ UNCHANGED <<disk, graph_nodes, graph_edges, file_functions, file_calls,
                   file_imports, file_keys, symbol_table, walk, todo>>
    /\ UNCHANGED frame

Next ==
    \/ BuildGraph
    \/ Phase1File
    \/ Phase2Start
    \/ Phase2File
    \/ BuildDone
    \/ GetSlice
    \/ GetRouteContext
    \/ Return

Spec == Init /\ [][Next]_vars

SpecOneFile == InitOneFile /\ [][Next]_vars

\* the files of the directory change and the caller invokes build_graph on the
\* same instance again
Rebuild ==
    /\ pc = "built"
    /\ disk' \in RebuildDisks
    /\ pc' = "new"
    /\ UNCHANGED <<graph_nodes, graph_edges, file_functions, file_calls,
                   file_imports, file_keys, symbol_table, walk, todo, op, out>>
    /\ UNCHANGED frame

InitRebuild == disk \in RebuildDisks /\ InitInstance

NextRebuild == Next \/ Rebuild

SpecRebuild == InitRebuild /\ [][NextRebuild]_vars

(***************************************************************************)
(* The queries followed step by step: one level of the search, one call    *)
(* site of the handler at a time.                                          *)
(***************************************************************************)
\* get_slice past its first test: reachable = {node_id}, the search at its
\* source; ctx holds the locals of the get_route_context that called, if any
slice_frame(node_id, depth, ctx) ==
    [tag |-> "slice", seen |-> {node_id}, frontier |-> {node_id}, limit |-> depth, ctx |-> ctx]

\* a search that follows every edge again and counts no level
bfs_step_revisiting(edges, fr) ==
    [fr EXCEPT !.seen = @ \cup {e[2] : e \in {d \in edges : d[1] \in fr.frontier}},
               !.frontier = {e[2] : e \in {d \in edges : d[1] \in fr.frontier}}]

\* nx.bfs_edges: one more level, the unvisited successors of the last one
bfs_step(edges, fr) ==
    [fr EXCEPT !.seen = @ \cup children_of(edges, fr.seen, fr.frontier),
               !.frontier = children_of(edges, fr.seen, fr.frontier),
               !.limit = @ - 1]

\* get_route_context before its loop over calls_in_handler
context_frame(calls) ==
    [tag |-> "context", calls |-> calls,
     acc |-> [seen_node_ids |-> {}, all_defs |-> <<>>, raised |-> FALSE]]

\* a caller invokes get_slice
EnterGetSlice ==
    /\ pc = "built"
    /\ \E node_id \in QueryIds, depth \in 0..MaxDepth :
          /\ op' = [name |-> "get_slice", node_id |-> node_id, depth |-> depth]
          /\ IF node_id \notin DOMAIN graph_nodes
             THEN /\ out' = [raised |-> FALSE, ret |-> <<>>]
                  /\ pc' = "returned"
                  /\ frame' = NoFrame
             ELSE /\ out' = NoOut
                  /\ pc' = "slicing"
                  /\ frame' = slice_frame(node_id, depth, NoFrame)
    /\ UNCHANGED <<disk, graph_nodes, graph_edges, file_functions, file_calls,
                   file_imports, file_keys, symbol_table, walk, todo>>

\* the search visits one more level
BfsLevel ==
    /\ pc = "slicing"
    /\ frame.limit > 0
    /\ frame.frontier # {}
    /\ frame' = bfs_step(graph_edges, frame)
    /\ UNCHANGED <<disk, graph_nodes, graph_edges, file_functions, file_calls,
                   file_imports, file_keys, symbol_table, pc, walk, todo, op, out>>

\* get_slice returns its list, to the caller or to get_route_context
SliceLeft(result) ==
    IF frame.ctx.tag = "none"
    THEN /\ out' = [raised |-> FALSE, ret |-> result]
         /\ pc' = "returned"
         /\ frame' = NoFrame
    ELSE /\ out' = out
         /\ pc' = "collecting"
         /\ frame' = [frame.ctx EXCEPT !.acc = collect_slice(@, result)]

\* the search is over: get_slice lists the definitions of the reachable nodes
LeaveGetSlice ==
    /\ pc = "slicing"
    /\ frame.limit <= 0 \/ frame.frontier = {}
    /\ \E order \in Orders(frame.seen) :
          SliceLeft(slice_result(Self, iterate(Self, frame.seen, order)))
    /\ UNCHANGED <<disk, graph_nodes, graph_edges, file_functions, file_calls,
                   file_imports, file_keys, symbol_table, walk, todo, op>>

\* a caller invokes get_route_context
EnterGetRouteContext ==
    /\ pc = "built"
    /\ \E route \in Routes, depth \in 0..MaxDepth :
          /\ op' = [name |-> "get_route_context", route |-> route, depth |-> depth]
          /\ frame' = context_frame(calls_in_handler(Self, route))
    /\ pc' = "collecting"
    /\ out' = NoOut
    /\ UNCHANGED <<disk, graph_nodes, graph_edges, file_functions, file_calls,
                   file_imports, file_keys, symbol_table, walk, todo>>

\* the body of "for call in calls_in_handler" up to the call of get_slice;
\* rest is the loop after this call site
CallResolved(resolved, rest) ==
    IF resolved.tag = "raise"
    THEN /\ out' = [raised |-> TRUE, text |-> <<>>, all_defs |-> <<>>]
         /\ pc' = "raised"
         /\ frame' = NoFrame
    ELSE IF /\ resolved.tag = "some"
            /\ resolved.val \notin frame.acc.seen_node_ids
            /\ resolved.val \in DOMAIN graph_nodes
    THEN /\ out' = out
         /\ pc' = "slicing"
         /\ frame' = slice_frame(resolved.val, op.depth, rest)
    ELSE /\ out' = out
         /\ pc' = "collecting"
         /\ frame' = rest

\* get_route_context takes the next call site of the handler
NextCall ==
    /\ pc = "collecting"
    /\ frame.calls # <<>>
    /\ CallResolved(resolve_in_context(Self, op.route.file_path, Head(frame.calls).name),
                    [frame EXCEPT !.calls = Tail(@)])
    /\ UNCHANGED <<disk, graph_nodes, graph_edges, file_functions, file_calls,
                   file_imports, file_keys, symbol_table, walk, todo, op>>

\* the loop is over: get_route_context renders and returns
LeaveGetRouteContext ==
    /\ pc = "collecting"
    /\ frame.calls = <<>>
    /\ Returned(render(op.route, frame.acc))
    /\ frame' = NoFrame
    /\ UNCHANGED <<disk, graph_nodes, graph_edges, file_functions, file_calls,
                   file_imports, file_keys, symbol_table, walk, todo, op>>

InitSteps == disk \in StepDisks /\ InitInstance

NextSteps ==
    \/ BuildGraph
    \/ Phase1File
    \/ Phase2Start
    \/ Phase2File
    \/ BuildDone
    \/ EnterGetSlice
    \/ BfsLevel
    \/ LeaveGetSlice
    \/ EnterGetRouteContext
    \/ NextCall
    \/ LeaveGetRouteContext
    \/ Return

\* the steps inside a query
QueryStep == BfsLevel \/ LeaveGetSlice \/ NextCall \/ LeaveGetRouteContext

\* the program is single-threaded and synchronous: a query that was invoked
\* keeps taking its steps; nothing obliges a caller to invoke one
SpecSteps == InitSteps /\ [][NextSteps]_vars /\ WF_vars(QueryStep)

(***************************************************************************)
(* The enclosing-function resolver on its own.                             *)
(***************************************************************************)
\* self._find_enclosing_function(file_path, line) on the built instance
FindEnclosingFunction ==
    /\ pc = "built"
    /\ \E file_path \in DOMAIN disk \cup {PathZ}, line \in 0..(MaxLine + 1) :
          /\ op' = [name |-> "_find_enclosing_function", file_path |-> file_path,
                    line |-> line]
          /\ out' = [raised |-> FALSE, ret |-> find_enclosing_function(Self, file_path, line)]
    /\ pc' = "returned"
    /\ UNCHANGED <<disk, graph_nodes, graph_edges, file_functions, file_calls,
                   file_imports, file_keys, symbol_table, walk, todo, frame>>

InitEnclosing == disk \in NestedDisks /\ InitInstance

NextEnclosing ==
    \/ BuildGraph
    \/ Phase1File
    \/ Phase2Start
    \/ Phase2File
    \/ BuildDone
    \/ FindEnclosingFunction
    \/ Return

SpecEnclosing == InitEnclosing /\ [][NextEnclosing]_vars

(***************************************************************************)
(* The import resolver on its own.                                         *)
(***************************************************************************)
\* the resolver returns r, or its exception leaves it
ResolverDone(r) ==
    /\ out' = [raised |-> r.tag = "raise", ret |-> r]
    /\ pc' = IF r.tag = "raise" THEN "raised" ELSE "returned"

\* self._resolve_import_path(Path(file_path), import_path) on the built instance
ResolveImportPath ==
    /\ pc = "built"
    /\ \E import_path \in ImportSpecifiers :
          /\ op' = [name |-> "_resolve_import_path", current_file |-> PathA,
                    import_path |-> import_path]
          /\ ResolverDone(resolve_import_path(Self, PathA, import_path))
    /\ UNCHANGED <<disk, graph_nodes, graph_edges, file_functions, file_calls,
                   file_imports, file_keys, symbol_table, walk, todo, frame>>

\* self._resolve_call_via_imports(file_path, call_name) on the built instance
ResolveCallViaImports ==
    /\ pc = "built"
    /\ \E call_name \in {NameF, NameG} :
          /\ op' = [name |-> "_resolve_call_via_imports", file_path |-> PathA,
                    call_name |-> call_name]
          /\ ResolverDone(resolve_call_via_imports(Self, PathA, call_name))
    /\ UNCHANGED <<disk, graph_nodes, graph_edges, file_functions, file_calls,
                   file_imports, file_keys, symbol_table, walk, todo, frame>>

InitImports == disk \in ImportDisks /\ InitInstance

NextImports ==
    \/ BuildGraph
    \/ Phase1File
    \/ Phase2Start
    \/ Phase2File
    \/ BuildDone
    \/ ResolveImportPath
    \/ ResolveCallViaImports
    \/ Return

SpecImports == InitImports /\ [][NextImports]_vars

(***************************************************************************)
(* The counts of the built graph.                                          *)
(***************************************************************************)
\* a caller reads graph.node_count
NodeCount ==
    /\ pc = "built"
    /\ op' = [name |-> "node_count"]
    /\ out' = [raised |-> FALSE, ret |-> node_count(Self)]
    /\ pc' = "returned"
    /\ UNCHANGED <<disk, graph_nodes, graph_edges, file_functions, file_calls,
                   file_imports, file_keys, symbol_table, walk, todo, frame>>

\* a caller reads graph.edge_count
EdgeCount ==
    /\ pc = "built"
    /\ op' = [name |-> "edge_count"]
    /\ out' = [raised |-> FALSE, ret |-> edge_count(Self)]
    /\ pc' = "returned"
    /\ UNCHANGED <<disk, graph_nodes, graph_edges, file_functions, file_calls,
                   file_imports, file_keys, symbol_table, walk, todo, frame>>

InitEdges == disk \in EdgeDisks /\ InitInstance

\* the four queries, on the trees of families 3 and 4
InitQueries == disk \in StepDisks \cup RebuildDisks /\ InitInstance

NextQueries ==
    \/ BuildGraph
    \/ Phase1File
    \/ Phase2Start
    \/ Phase2File
    \/ BuildDone
    \/ GetSlice
    \/ GetRouteContext
    \/ NodeCount
    \/ EdgeCount
    \/ Return

SpecQueries == InitQueries /\ [][NextQueries]_vars

NextEdges ==
    \/ BuildGraph
    \/ Phase1File
    \/ Phase2Start
    \/ Phase2File
    \/ BuildDone
    \/ NodeCount
    \/ EdgeCount
    \/ Return

SpecEdges == InitEdges /\ [][NextEdges]_vars

(***************************************************************************)
(* SARIFReporter: the report of the findings of an audit.                  *)
(***************************************************************************)
\* models.Severity and models.VulnType, by their values
Severities == {"critical", "high", "medium", "low", "info"}
VulnTypes == {"IDOR", "BFLA", "STATE_MANIPULATION", "MULTI_TENANT_LEAK", "IMPLICIT_PERMISSION"}

Finding(vuln_type, severity, title, description, file_path, start_line, end_line) ==
    [vuln_type |-> vuln_type, severity |-> severity, title |-> title,
     description |-> description, file_path |-> file_path,
     start_line |-> start_line, end_line |-> end_line]

AuditResult(route, findings) == [route |-> route, findings |-> findings]

Remediation(finding_title, file_path, diff, explanation) ==
    [finding_title |-> finding_title, file_path |-> file_path, diff |-> diff,
     explanation |-> explanation]

RuleDef(id, vuln_type, short_name, default_level) ==
    [id |-> id, vuln_type |-> vuln_type, short_name |-> short_name,
     default_level |-> default_level]

\* _RULES
RULES ==
    <<RuleDef("LG001", "IDOR", "IDOR", "error"),
      RuleDef("LG002", "BFLA", "BFLA", "error"),
      RuleDef("LG003", "STATE_MANIPULATION", "StateMachineManipulation", "warning"),
      RuleDef("LG004", "MULTI_TENANT_LEAK", "MultiTenantDataLeakage", "error"),
      RuleDef("LG005", "IMPLICIT_PERMISSION", "ImplicitPermissionBypass", "warning")>>

\* the position of x in a Python list (from 0); the last one if x is repeated
LastIndex(seq, x) ==
    (CHOOSE i \in DOMAIN seq : seq[i] = x /\ \A j \in DOMAIN seq : seq[j] = x => j <= i) - 1

\* the position of x in a Python list (from 0); the first one if x is repeated
FirstIndex(seq, x) ==
    (CHOOSE i \in DOMAIN seq : seq[i] = x /\ \A j \in DOMAIN seq : seq[j] = x => i <= j) - 1

\* _VULN_TO_RULE_INDEX = {r.vuln_type: i for i, r in enumerate(_RULES)}
VULN_TO_RULE_INDEX ==
    [vt \in {RULES[i].vuln_type : i \in DOMAIN RULES} |->
        LastIndex([i \in DOMAIN RULES |-> RULES[i].vuln_type], vt)]

\* a mapping in which only critical is an error
severity_to_level_strict(severity) ==
    IF severity = "critical" THEN "error"
    ELSE IF severity \in {"high", "medium"} THEN "warning"
    ELSE "note"

\* _severity_to_level
severity_to_level(severity) ==
    IF severity \in {"critical", "high"} THEN "error"
    ELSE IF severity = "medium" THEN "warning"
    ELSE "note"

\* Path(text).is_absolute()
IsAbsolute(text) == text # <<>> /\ Head(text) = "/"

\* p is a leading part of q
IsPrefix(p, q) == Len(p) <= Len(q) /\ SubSeq(q, 1, Len(p)) = p

\* path.as_posix(), for a path of the given parts
AsPosix(absolute, parts) ==
    IF parts = <<>> THEN (IF absolute THEN <<"/">> ELSE <<".">>)
    ELSE (IF absolute THEN <<"/">> ELSE <<>>) \o JoinWith(parts, <<"/">>)

\* _relative_uri: relative to target, or as it is when relative_to raises
relative_uri(file_path, target) ==
    IF IsAbsolute(file_path) = IsAbsolute(target) /\ IsPrefix(PathOf(target), PathOf(file_path))
    THEN AsPosix(FALSE, SubSeq(PathOf(file_path), Len(PathOf(target)) + 1,
                               Len(PathOf(file_path))))
    ELSE AsPosix(IsAbsolute(file_path), PathOf(file_path))

\* generate: "if remediations:", the list or nothing
remediation_list(remediations) ==
    IF remediations.tag = "some" THEN remediations.val ELSE <<>>

\* generate: rem_map, (file_path, finding_title) -> Remediation, the last one wins
rem_map(rems) ==
    [k \in {<<rems[i].file_path, rems[i].finding_title>> : i \in DOMAIN rems} |->
        rems[LastIndex([i \in DOMAIN rems |-> <<rems[i].file_path, rems[i].finding_title>>],
                       k) + 1]]

\* a lookup by the finding's title alone
rem_get_by_title(map, finding) ==
    IF \E k \in DOMAIN map : k[2] = finding.title
    THEN Some(map[CHOOSE k \in DOMAIN map : k[2] = finding.title])
    ELSE None

\* rem_map.get((finding.file_path, finding.title))
rem_get(map, finding) ==
    IF <<finding.file_path, finding.title>> \in DOMAIN map
    THEN Some(map[<<finding.file_path, finding.title>>])
    ELSE None

\* generate: "for audit in results: all_findings.extend(audit.findings)"
RECURSIVE all_findings(_)
all_findings(results) ==
    IF results = <<>> THEN <<>>
    ELSE Head(results).findings \o all_findings(Tail(results))

\* generate: artifact_uris, the relative uris in first-seen order
RECURSIVE artifact_uris(_, _, _)
artifact_uris(findings, target, uris) ==
    IF findings = <<>> THEN uris
    ELSE artifact_uris(Tail(findings), target,
             IF \E i \in DOMAIN uris : uris[i] = relative_uri(Head(findings).file_path, target)
             THEN uris
             ELSE Append(uris, relative_uri(Head(findings).file_path, target)))

\* _finding_to_result: the "fixes" entry of a result that has a remediation
fixes_of(finding, rel_uri, remediation) ==
    IF remediation.tag = "some"
    THEN Some([description |-> remediation.val.explanation, uri |-> rel_uri,
               startLine |-> finding.start_line, endLine |-> finding.end_line,
               text |-> remediation.val.diff])
    ELSE None

\* _finding_to_result, with rel_uri computed
result_obj(finding, rule_index, rel_uri, uris, remediation) ==
    [ruleId |-> RULES[rule_index + 1].id,
     ruleIndex |-> rule_index,
     level |-> severity_to_level(finding.severity),
     message |-> finding.title \o ": " \o finding.description,
     uri |-> rel_uri,
     index |-> FirstIndex(uris, rel_uri),
     startLine |-> finding.start_line,
     endLine |-> finding.end_line,
     fixes |-> fixes_of(finding, rel_uri, remediation)]

\* _finding_to_result
finding_to_result(finding, target, uris, remediation) ==
    result_obj(finding, VULN_TO_RULE_INDEX[finding.vuln_type],
               relative_uri(finding.file_path, target), uris, remediation)

\* _build_rules_array
build_rules_array ==
    [i \in DOMAIN RULES |->
        [id |-> RULES[i].id, level |-> RULES[i].default_level, tags |-> <<RULES[i].short_name>>]]

\* generate, with all_findings, artifact_uris and rem_map computed
sarif_of(findings, target, uris, map) ==
    [rules |-> build_rules_array,
     artifacts |-> uris,
     results |-> [i \in DOMAIN findings |->
                     finding_to_result(findings[i], target, uris, rem_get(map, findings[i]))]]

\* SARIFReporter.generate(results, target_dir, remediations)
generate(results, target_dir, remediations) ==
    sarif_of(all_findings(results), target_dir,
             artifact_uris(all_findings(results), target_dir, <<>>),
             rem_map(remediation_list(remediations)))

\* The audits a report is generated from: the scanned project is /p; a finding
\* of every vulnerability type and severity, alone or after and before findings
\* of other audit results; with no remediations, an empty list, or remediations
\* that match a finding by file and title, by title only, or twice.
TargetDir == <<"/", "p">>
FileInTarget == <<"/", "p", "/", "a", ".", "j", "s">>
FileOutside == <<"/", "q", "/", "b", ".", "j", "s">>

SarifResults ==
    {<<AuditResult("GET /", <<Finding(vt, sev, "t1", "d1", FileInTarget, 3, 4)>>)>> :
        vt \in VulnTypes, sev \in Severities}
    \cup {<<AuditResult("GET /", <<Finding("BFLA", "info", "t1", "d1", FileOutside, 1, 2)>>),
            AuditResult("POST /", <<Finding(vt, "medium", "t2", "d2", FileOutside, 5, 6),
                                    Finding("IDOR", sev, "t1", "d3", FileInTarget, 3, 4)>>)>> :
            vt \in VulnTypes, sev \in Severities}
    \cup {<<>>, <<AuditResult("GET /", <<>>)>>,
          <<AuditResult("GET /", <<>>),
            AuditResult("POST /", <<Finding("IDOR", "low", "t1", "d1", FileInTarget, 3, 4)>>)>>}

SarifRemediations ==
    {None, Some(<<>>),
     Some(<<Remediation("t1", FileInTarget, "fix1", "why1")>>),
     Some(<<Remediation("t1", FileOutside, "fix2", "why2")>>),
     Some(<<Remediation("t2", FileInTarget, "fix3", "why3")>>),
     Some(<<Remediation("t1", FileInTarget, "fix1", "why1"),
            Remediation("t1", FileInTarget, "fix4", "why4")>>)}

\* the scan has audited its routes and is about to report
InitSarif ==
    /\ disk = <<>>
    /\ graph_nodes = <<>>
    /\ graph_edges = {}
    /\ file_functions = <<>>
    /\ file_calls = <<>>
    /\ file_imports = <<>>
    /\ file_keys = <<>>
    /\ symbol_table = <<>>
    /\ pc = "audited"
    /\ walk = <<>>
    /\ todo = <<>>
    /\ op \in {[name |-> "generate", results |-> r, target_dir |-> TargetDir, remediations |-> m] :
                 r \in SarifResults, m \in SarifRemediations}
    /\ out = NoOut
    /\ frame = NoFrame

\* reporter.generate(results, str(target_dir), remediations=remediations)
Generate ==
    /\ pc = "audited"
    /\ out' = [raised |-> FALSE, sarif |-> generate(op.results, op.target_dir, op.remediations)]
    /\ pc' = "reported"
    /\ UNCHANGED <<disk, graph_nodes, graph_edges, file_functions, file_calls,
                   file_imports, file_keys, symbol_table, walk, todo, op, frame>>

NextSarif == Generate

SpecSarif == InitSarif /\ [][NextSarif]_vars

(***************************************************************************)
(* Analyzer.audit_route: one route audited by the model.                   *)
(***************************************************************************)
\* A response text is a sequence of characters in which a whole JSON value
\* stands as one element: an object that matches the AuditResult schema (with a
\* high finding, no finding, a critical finding, a medium and a low finding, an
\* info finding), an object that matches the remediation schema, an object that
\* matches neither, a JSON array.
ModelAnswers ==
    [value \in {"OBJ", "OBJ0", "OBJC", "OBJM", "OBJI"} |->
        CASE value = "OBJ" -> <<Finding("IDOR", "high", "t1", "d1", PathA, 3, 4)>>
          [] value = "OBJ0" -> <<>>
          [] value = "OBJC" -> <<Finding("BFLA", "critical", "t2", "d2", PathA, 5, 5)>>
          [] value = "OBJM" -> <<Finding("IDOR", "medium", "t3", "d3", PathA, 5, 5),
                                 Finding("BFLA", "low", "t4", "d4", PathZ, 1, 1)>>
          [] value = "OBJI" -> <<Finding("IDOR", "info", "t5", "d5", PathA, 5, 5)>>]

JsonObjects == DOMAIN ModelAnswers \cup {"FIX", "BADOBJ"}
JsonValues == JsonObjects \cup {"ARR"}

\* the three backquotes of a code fence; "bq" stands for one backquote
Fence == <<"bq", "bq", "bq">>

IsSpace(c) == c \in {" ", "\n"}

\* s.endswith(t)
EndsWith(s, t) == Len(s) >= Len(t) /\ SubSeq(s, Len(s) - Len(t) + 1, Len(s)) = t

\* text.strip()
Strip(text) ==
    IF \A i \in DOMAIN text : IsSpace(text[i]) THEN <<>>
    ELSE SubSeq(text,
                CHOOSE i \in DOMAIN text :
                    ~IsSpace(text[i]) /\ \A j \in 1..(i - 1) : IsSpace(text[j]),
                CHOOSE i \in DOMAIN text :
                    ~IsSpace(text[i]) /\ \A j \in (i + 1)..Len(text) : IsSpace(text[j]))

\* audit_route: "for block in response.content: if block.type == 'text'"
raw_text_of(content) ==
    IF \A i \in DOMAIN content : content[i].type # "text" THEN <<>>
    ELSE content[CHOOSE i \in DOMAIN content :
                    /\ content[i].type = "text"
                    /\ \A j \in 1..(i - 1) : content[j].type # "text"].text

\* audit_route: what follows the opening fence, without the closing fence
after_fence(rest) ==
    IF EndsWith(rest, Fence) THEN Strip(SubSeq(rest, 1, Len(rest) - 3)) ELSE rest

\* audit_route: "if stripped.startswith(fence)"; str.index raises ValueError
\* when the text has no newline
strip_fences(raw_text, stripped) ==
    IF StartsWith(stripped, Fence)
    THEN IF \A i \in DOMAIN stripped : stripped[i] # "\n"
         THEN [tag |-> "ValueError"]
         ELSE [tag |-> "ok",
               text |-> after_fence(SubSeq(stripped,
                            (CHOOSE i \in DOMAIN stripped :
                                stripped[i] = "\n"
                                /\ \A j \in 1..(i - 1) : stripped[j] # "\n") + 1,
                            Len(stripped)))]
    ELSE [tag |-> "ok", text |-> raw_text]

\* json.loads(text): one JSON value between optional whitespace, or
\* JSONDecodeError
json_loads(text) ==
    IF Len(Strip(text)) = 1 /\ Strip(text)[1] \in JsonValues
    THEN [tag |-> "ok", value |-> Strip(text)[1]]
    ELSE [tag |-> "JSONDecodeError"]

\* f"{route.http_method} {route.route_pattern}"
route_label(route) == route.http_method \o " " \o route.route_pattern

\* audit_route returns a result
Audited(result, reasoning) ==
    [raised |-> FALSE, ret |-> result, reasoning |-> reasoning]

\* an exception no except clause of audit_route names leaves the method
Escapes(exception) == [raised |-> TRUE, exception |-> exception]

\* AuditResult(**raw): the result the model wrote, ValidationError, or TypeError
\* for a JSON value that is not an object
validated(route, value) ==
    IF value \notin JsonObjects THEN Escapes("TypeError")
    ELSE IF value \notin DOMAIN ModelAnswers
    THEN Audited(AuditResult(route_label(route), <<>>), "LLM response did not match expected schema")
    ELSE Audited(AuditResult("GET /model", ModelAnswers[value]), "analysis")

\* audit_route from json.loads on
loaded(route, parsed) ==
    IF parsed.tag = "JSONDecodeError"
    THEN Audited(AuditResult(route_label(route), <<>>), "Failed to parse LLM response as JSON")
    ELSE validated(route, parsed.value)

\* audit_route from the fence removal on
unfenced(route, fenced) ==
    IF fenced.tag = "ValueError" THEN Escapes("ValueError")
    ELSE loaded(route, json_loads(fenced.text))

\* Analyzer.audit_route(route, context), for each outcome of messages.create
audit_route(route, response) ==
    IF response.tag = "APIError"
    THEN Audited(AuditResult(route_label(route), <<>>), "API error")
    ELSE unfenced(route, strip_fences(raw_text_of(response.content),
                                      Strip(raw_text_of(response.content))))

\* The outcomes of the model call: an API error, or a response whose content
\* has no block, a thinking block only, or a text block (after a thinking block
\* or not) holding a JSON value, other text or nothing, bare or behind an
\* opening fence with or without a language word and a newline, and before a
\* closing fence or not.
ResponseBodies == {<<v>> : v \in JsonValues} \cup {<<"x">>, <<>>, <<"x", "OBJ">>}

ResponseOpenings ==
    {<<>>, <<" ">>, Fence, Fence \o <<"\n">>, Fence \o <<"j", "s", "o", "n">>,
     Fence \o <<"j", "s", "o", "n", "\n">>}

ResponseClosings == {<<>>, <<"\n">>, Fence, <<"\n">> \o Fence, <<"\n">> \o Fence \o <<"\n">>}

ResponseTexts ==
    {o \o b \o c : o \in ResponseOpenings, b \in ResponseBodies, c \in ResponseClosings}

TextBlock(text) == [type |-> "text", text |-> text]
ThinkingBlock == [type |-> "thinking"]

Responses ==
    {[tag |-> "APIError"],
     [tag |-> "Message", content |-> <<>>],
     [tag |-> "Message", content |-> <<ThinkingBlock>>]}
    \cup {[tag |-> "Message", content |-> <<TextBlock(t)>>] : t \in ResponseTexts}
    \cup {[tag |-> "Message", content |-> <<ThinkingBlock, TextBlock(t)>>] : t \in ResponseTexts}

AuditedRoutes == {[http_method |-> "GET", route_pattern |-> "/u"],
                  [http_method |-> "POST", route_pattern |-> "/u/:id"]}

\* the scan is about to audit a route
InitAudit ==
    /\ disk = <<>>
    /\ graph_nodes = <<>>
    /\ graph_edges = {}
    /\ file_functions = <<>>
    /\ file_calls = <<>>
    /\ file_imports = <<>>
    /\ file_keys = <<>>
    /\ symbol_table = <<>>
    /\ pc = "auditing"
    /\ walk = <<>>
    /\ todo = <<>>
    /\ op \in {[name |-> "audit_route", route |-> r, response |-> m] :
                 r \in AuditedRoutes, m \in Responses}
    /\ out = NoOut
    /\ frame = NoFrame

\* audit_route returns r, or its exception leaves it
AuditDone(r) == out' = r /\ pc' = IF r.raised THEN "raised" ELSE "returned"

\* analyzer.audit_route(route, context)
AuditRoute ==
    /\ pc = "auditing"
    /\ AuditDone(audit_route(op.route, op.response))
    /\ UNCHANGED <<disk, graph_nodes, graph_edges, file_functions, file_calls,
                   file_imports, file_keys, symbol_table, walk, todo, op, frame>>

NextAudit == AuditRoute

SpecAudit == InitAudit /\ [][NextAudit]_vars

(***************************************************************************)
(* The scan command (cli.py): parse, build, audit, remediate, report, exit.*)
(***************************************************************************)
\* Remediator.remediate from json.loads on: a Remediation, None, or TypeError
fix_loaded(finding, parsed) ==
    IF parsed.tag = "JSONDecodeError" THEN [raised |-> FALSE, ret |-> None]
    ELSE IF parsed.value \notin JsonObjects THEN Escapes("TypeError")
    ELSE IF parsed.value = "FIX"
    THEN [raised |-> FALSE,
          ret |-> Some(Remediation(finding.title, finding.file_path, "diff", "why"))]
    ELSE [raised |-> FALSE, ret |-> None]

\* Remediator.remediate from the fence removal on
fix_unfenced(finding, fenced) ==
    IF fenced.tag = "ValueError" THEN Escapes("ValueError")
    ELSE fix_loaded(finding, json_loads(fenced.text))

\* Remediator.remediate(finding, route, file_content, route_context)
remediate(finding, response) ==
    IF response.tag = "APIError" THEN [raised |-> FALSE, ret |-> None]
    ELSE fix_unfenced(finding, strip_fences(raw_text_of(response.content),
                                            Strip(raw_text_of(response.content))))

\* Family 8: the trees a scan is pointed at: no source file; a file without
\* routes; the trees of family 3 (one route); a file with two routes; a file
\* whose handler calls a name imported from "." (the directory itself).
TwoRouteFacts ==
    [defs |-> <<FunctionDef(NameF, PathA, 1, 2, SourceText(NameF, 1))>>,
     calls |-> <<FunctionCall(NameF, PathA, 5), FunctionCall(NameX, PathA, 6)>>,
     imports |-> <<>>,
     routes |-> RoutesAt(PathA, {<<5, 5>>, <<6, 6>>})]

DotImportFacts ==
    [defs |-> <<FunctionDef(NameF, PathA, 1, 2, SourceText(NameF, 1))>>,
     calls |-> <<FunctionCall(NameG, PathA, 5)>>,
     imports |-> <<ImportInfo(NameG, <<".">>, PathA, 9)>>,
     routes |-> RoutesAt(PathA, {<<5, 5>>})]

ScanDisks ==
    {<<>>, [p \in {PathA} |-> TargetFacts(PathA, NameF)],
     [p \in {PathA} |-> TwoRouteFacts], [p \in {PathA} |-> DotImportFacts]}
    \cup RebuildDisks

\* what the model answers when a route is audited
ScanResponses ==
    {[tag |-> "APIError"]}
    \cup {[tag |-> "Message", content |-> <<TextBlock(t)>>] :
            t \in {<<"OBJ">>, <<"OBJ0">>, <<"OBJC">>, <<"OBJM">>, <<"OBJI">>, <<"ARR">>, Fence,
                   Fence \o <<"j", "s", "o", "n", "\n", "OBJ0", "\n">> \o Fence}}

\* what the model answers when a fix is asked for
FixResponses ==
    {[tag |-> "APIError"]}
    \cup {[tag |-> "Message", content |-> <<TextBlock(t)>>] :
            t \in {<<"FIX">>, <<"x">>, <<"ARR">>, Fence \o <<"FIX">> \o Fence}}

\* the method and the pattern find_routes read for a route
Labelled(route) == [http_method |-> "GET", route_pattern |-> "/r"]

\* the locals of scan once the routes are known
scan_frame(all_routes) ==
    [tag |-> "scan", all_routes |-> all_routes, routes_left |-> all_routes, results |-> <<>>,
     fixing |-> <<>>, remediations |-> <<>>, written |-> FALSE]

\* raise typer.Exit(code=code)
ExitWith(code) == pc' = "exited" /\ out' = [raised |-> FALSE, exit_code |-> code]

\* scan: files = _discover_files(target_dir); if not files: exit 0
DiscoverFiles ==
    /\ pc = "scan"
    /\ IF DOMAIN disk = {} THEN ExitWith(0) ELSE pc' = "parsing" /\ out' = out
    /\ UNCHANGED <<disk, graph_nodes, graph_edges, file_functions, file_calls,
                   file_imports, file_keys, symbol_table, walk, todo, op, frame>>

\* scan: all_routes.extend(parser.find_routes(fpath)); if not all_routes: exit 0;
\* then DependencyGraph(parser)
FindRoutes ==
    /\ pc = "parsing"
    /\ \E all_routes \in Orders(UNION {disk[p].routes : p \in DOMAIN disk}) :
          IF all_routes = <<>>
          THEN ExitWith(0) /\ frame' = frame
          ELSE pc' = "new" /\ out' = out /\ frame' = scan_frame(all_routes)
    /\ UNCHANGED <<disk, graph_nodes, graph_edges, file_functions, file_calls,
                   file_imports, file_keys, symbol_table, walk, todo, op>>

\* scan: the body of "for route in all_routes", given what the two calls did
RouteAudited(context, audited) ==
    IF context.raised \/ audited.raised
    THEN pc' = "raised" /\ frame' = frame
    ELSE /\ pc' = "built"
         /\ frame' = [frame EXCEPT !.results = Append(@, audited.ret),
                                   !.routes_left = Tail(@)]

\* scan: context = graph.get_route_context(route, depth);
\* result = analyzer.audit_route(route, context); results.append(result)
AuditNextRoute ==
    /\ pc = "built"
    /\ frame.tag = "scan"
    /\ frame.routes_left # <<>>
    /\ \E order \in Orders(context_members(Self, Head(frame.routes_left), op.depth)),
          response \in ScanResponses :
          RouteAudited(get_route_context(Self, Head(frame.routes_left), op.depth, order),
                       audit_route(Labelled(Head(frame.routes_left)), response))
    /\ UNCHANGED <<disk, graph_nodes, graph_edges, file_functions, file_calls,
                   file_imports, file_keys, symbol_table, walk, todo, op, out>>

\* scan: the findings that have a route in their file, when --remediate is set
findings_for_fix(results, all_routes) ==
    SelectSeq(all_findings(results),
              LAMBDA finding : \E i \in DOMAIN all_routes :
                                  all_routes[i].file_path = finding.file_path)

\* scan: "if remediate:", all_findings_for_fix
PlanFixes ==
    /\ pc = "built"
    /\ frame.tag = "scan"
    /\ frame.routes_left = <<>>
    /\ pc' = "fixing"
    /\ frame' = [frame EXCEPT !.fixing = IF op.remediate
                                         THEN findings_for_fix(frame.results, frame.all_routes)
                                         ELSE <<>>]
    /\ UNCHANGED <<disk, graph_nodes, graph_edges, file_functions, file_calls,
                   file_imports, file_keys, symbol_table, walk, todo, op, out>>

\* scan: the body of "for finding, route in all_findings_for_fix" after the file
\* was read, given what remediate did
FindingFixed(fixed) ==
    IF fixed.raised
    THEN pc' = "raised" /\ frame' = frame
    ELSE /\ pc' = "fixing"
         /\ frame' = [frame EXCEPT !.fixing = Tail(@),
                                   !.remediations = IF fixed.ret.tag = "some"
                                                    THEN Append(@, fixed.ret.val) ELSE @]

\* scan: file_content = Path(finding.file_path).read_text(), "continue" when it
\* fails; rem = remediator.remediate(finding, route, file_content, context)
RemediateNext ==
    /\ pc = "fixing"
    /\ frame.fixing # <<>>
    /\ \E readable \in BOOLEAN, response \in FixResponses :
          FindingFixed(IF readable THEN remediate(Head(frame.fixing), response)
                       ELSE [raised |-> FALSE, ret |-> None])
    /\ UNCHANGED <<disk, graph_nodes, graph_edges, file_functions, file_calls,
                   file_imports, file_keys, symbol_table, walk, todo, op, out>>

\* scan: sarif = reporter.generate(results, str(target_dir), remediations);
\* reporter.write(sarif, output)
Report ==
    /\ pc = "fixing"
    /\ frame.fixing = <<>>
    /\ pc' = "reported"
    /\ frame' = [frame EXCEPT !.written = TRUE]
    /\ out' = [raised |-> FALSE,
               sarif |-> generate(frame.results, <<"/">>, Some(frame.remediations))]
    /\ UNCHANGED <<disk, graph_nodes, graph_edges, file_functions, file_calls,
                   file_imports, file_keys, symbol_table, walk, todo, op>>

\* scan: severity_counts["critical"] + severity_counts["high"]
critical_high(results) ==
    Len(SelectSeq(all_findings(results),
                  LAMBDA finding : finding.severity \in {"critical", "high"}))

\* scan: raise typer.Exit(code=1) if critical_high > 0, else typer.Exit(code=0)
Exit ==
    /\ pc = "reported"
    /\ ExitWith(IF critical_high(frame.results) > 0 THEN 1 ELSE 0)
    /\ UNCHANGED <<disk, graph_nodes, graph_edges, file_functions, file_calls,
                   file_imports, file_keys, symbol_table, walk, todo, op, frame>>

\* an exception left scan: the interpreter prints the traceback and exits with 1
Crash ==
    /\ pc = "raised"
    /\ pc' = "exited"
    /\ out' = [raised |-> TRUE, exit_code |-> 1]
    /\ UNCHANGED <<disk, graph_nodes, graph_edges, file_functions, file_calls,
                   file_imports, file_keys, symbol_table, walk, todo, op, frame>>

\* the command line: scan <target> --depth d [--remediate]
InitScan ==
    /\ disk \in ScanDisks
    /\ graph_nodes = <<>>
    /\ graph_edges = {}
    /\ file_functions = <<>>
    /\ file_calls = <<>>
    /\ file_imports = <<>>
    /\ file_keys = <<>>
    /\ symbol_table = <<>>
    /\ pc = "scan"
    /\ walk = <<>>
    /\ todo = <<>>
    /\ op \in {[name |-> "scan", depth |-> MaxDepth, remediate |-> b] : b \in BOOLEAN}
    /\ out = NoOut
    /\ frame = NoFrame

NextScan ==
    \/ DiscoverFiles
    \/ FindRoutes
    \/ BuildGraph
    \/ Phase1File
    \/ Phase2Start
    \/ Phase2File
    \/ BuildDone
    \/ AuditNextRoute
    \/ PlanFixes
    \/ RemediateNext
    \/ Report
    \/ Exit
    \/ Crash

SpecScan == InitScan /\ [][NextScan]_vars

(***************************************************************************)
(* Properties.                                                             *)
(***************************************************************************)
\* get_slice has returned to its caller
ReturnedSlice == pc = "returned" /\ op.name = "get_slice"

\* get_route_context has returned to its caller
ReturnedContext == pc = "returned" /\ op.name = "get_route_context"

Range(seq) == {seq[i] : i \in DOMAIN seq}

\* the definition stored for a registered node
DefinitionOf(n) == graph_nodes[n].data.val

\* the nodes at most one outgoing edge away from a node of S
Hop(S) == S \cup {e[2] : e \in {x \in graph_edges : x[1] \in S}}

\* the nodes whose shortest directed path from n has at most d edges
RECURSIVE WithinHops(_, _)
WithinHops(n, d) == IF d = 0 THEN {n} ELSE Hop(WithinHops(n, d - 1))

\* the call sites of the route's file with start <= line <= end, in file order
InRangeCalls(route) ==
    IF route.file_path \in DOMAIN file_calls
    THEN SelectSeq(file_calls[route.file_path],
                   LAMBDA c : route.handler_start_line <= c.line
                              /\ c.line <= route.handler_end_line)
    ELSE <<>>

\* a call site of the route's file resolves to a registered node
ResolvesToNode(route, c) ==
    /\ resolve_in_context(Self, route.file_path, c.name).tag = "some"
    /\ resolve_in_context(Self, route.file_path, c.name).val \in DOMAIN graph_nodes

\* the nodes the call sites inside the handler resolve to, in call order
ResolvedCalls(route) ==
    SelectSeq(InRangeCalls(route), LAMBDA c : ResolvesToNode(route, c))

ResolvedNodes(route) ==
    [i \in DOMAIN ResolvedCalls(route) |->
        resolve_in_context(Self, route.file_path, ResolvedCalls(route)[i].name).val]

\* the node ids of the definitions get_route_context rendered, in block order
BlockIds == [i \in DOMAIN out.all_defs |-> NodeId(out.all_defs[i].file_path, out.all_defs[i].name)]

\* C1: for every graph build_graph leaves, every entry point and every depth,
\* get_route_context returns a string of length >= 1 and raises no error
C1_ReturnsNonEmptyNeverRaises ==
    op.name = "get_route_context" => ~out.raised /\ pc = "returned" /\ Len(out.text) >= 1

\* C2: get_route_context takes the fallback branch exactly when no call site of
\* the entry point's file with start <= line <= end resolves to a registered
\* node; the string it then returns contains the entry point's file path, its
\* two line numbers and its handler source, and no definition's block
C2_FallbackIffNoCallResolves ==
    ReturnedContext =>
        /\ (out.all_defs = <<>>) <=> (ResolvedCalls(op.route) = <<>>)
        /\ (out.text = render_fallback(op.route)) <=> (ResolvedCalls(op.route) = <<>>)
        /\ ResolvedCalls(op.route) = <<>> =>
              /\ Contains(out.text, op.route.file_path)
              /\ Contains(out.text, IntToStr(op.route.handler_start_line))
              /\ Contains(out.text, IntToStr(op.route.handler_end_line))
              /\ Contains(out.text, op.route.handler_source)
              /\ \A n \in DOMAIN graph_nodes :
                    ~Contains(out.text, render_part(DefinitionOf(n)))

\* C2: the fallback was taken for a handler of one line whose only call site,
\* on that line, resolves to nothing, in a graph that has nodes
C2_FallbackTaken ==
    /\ ReturnedContext
    /\ out.text = render_fallback(op.route)
    /\ InRangeCalls(op.route) # <<>>
    /\ op.route.handler_start_line = op.route.handler_end_line
    /\ DOMAIN graph_nodes # {}

\* C3: the definitions get_route_context renders are the union, over the call
\* sites inside the handler that resolve to a node r, of the definitions within
\* depth hops of r, also when r was collected by an earlier call site's slice
C3_ContextIsUnionOfSlices ==
    ReturnedContext =>
        Range(out.all_defs) =
            {DefinitionOf(m) :
                m \in UNION {WithinHops(r, op.depth) : r \in Range(ResolvedNodes(op.route))}}

\* the first call site inside the handler whose slice holds node m
FirstContributor(route, depth, m) ==
    CHOOSE i \in DOMAIN ResolvedNodes(route) :
        /\ m \in WithinHops(ResolvedNodes(route)[i], depth)
        /\ \A j \in 1..(i - 1) : m \notin WithinHops(ResolvedNodes(route)[j], depth)

\* C4: each node's definition appears once, and a definition first contributed
\* by the slice of an earlier call site precedes one first contributed by the
\* slice of a later call site
C4_OnceInFirstSeenOrder ==
    ReturnedContext =>
        /\ \A i, j \in DOMAIN BlockIds : BlockIds[i] = BlockIds[j] => i = j
        /\ \A i, j \in DOMAIN BlockIds :
              FirstContributor(op.route, op.depth, BlockIds[i])
                  < FirstContributor(op.route, op.depth, BlockIds[j]) => i < j

\* C5: get_route_context is deterministic: with the same built graph, entry
\* point and depth it returns the same string, whatever order the interpreter
\* iterates the set of reachable node ids in
C5_Deterministic ==
    ReturnedContext =>
        \A order \in Orders(context_members(Self, op.route, op.depth)) :
            get_route_context(Self, op.route, op.depth, order).text = out.text

\* C6: for a node id that is not a registered node and any depth, get_slice
\* returns the empty list and raises no error
C6_UnknownNodeEmptySlice ==
    (op.name = "get_slice" /\ op.node_id \notin DOMAIN graph_nodes) =>
        pc = "returned" /\ ~out.raised /\ out.ret = <<>>

\* C6: get_slice was asked for an unknown node id of a graph that has nodes and
\* edges, with a depth above 0
C6_UnknownNodeAsked ==
    /\ ReturnedSlice
    /\ op.node_id \notin DOMAIN graph_nodes
    /\ op.depth > 0
    /\ graph_edges # {}

\* C7: for a registered node, whatever its outgoing edges, get_slice(n, 0)
\* returns exactly one element, the definition stored for n
C7_DepthZeroIsSelf ==
    (ReturnedSlice /\ op.node_id \in DOMAIN graph_nodes /\ op.depth = 0) =>
        out.ret = <<DefinitionOf(op.node_id)>>

\* C7: get_slice(n, 0) was asked for a node with a self-loop
C7_DepthZeroOnSelfLoop ==
    /\ ReturnedSlice
    /\ op.depth = 0
    /\ <<op.node_id, op.node_id>> \in graph_edges

\* the graph's only edges are A -> B and B -> A, for A the node asked for
CyclicPairFrom(A) ==
    \E B \in DOMAIN graph_nodes : B # A /\ graph_edges = {<<A, B>>, <<B, A>>}

\* C8: in a graph whose only edges are A -> B and B -> A, get_slice(A, d) with
\* d >= 1 returns exactly the definitions of A and B, each once
C8_CyclicPairSlice ==
    (ReturnedSlice /\ op.depth >= 1 /\ CyclicPairFrom(op.node_id)) =>
        /\ Len(out.ret) = 2
        /\ Range(out.ret) = {DefinitionOf(e[1]) : e \in graph_edges}

\* C8: get_slice(A, d) was asked on the cyclic pair with the largest depth
C8_CyclicPairAsked ==
    /\ ReturnedSlice
    /\ op.depth = MaxDepth
    /\ CyclicPairFrom(op.node_id)

\* C9: for a registered node n and depth d, get_slice(n, d) returns exactly the
\* definitions of the nodes at most d edges from n: n is among them, no node
\* farther away is, and no definition appears twice
C9_SliceIsWithinHops ==
    (ReturnedSlice /\ op.node_id \in DOMAIN graph_nodes) =>
        /\ Range(out.ret) = {DefinitionOf(m) : m \in WithinHops(op.node_id, op.depth)}
        /\ DefinitionOf(op.node_id) \in Range(out.ret)
        /\ \A i, j \in DOMAIN out.ret : out.ret[i] = out.ret[j] => i = j

\* C9: get_slice(n, 1) was asked where a node is two edges from n and not one
C9_FartherNodeLeftOut ==
    /\ ReturnedSlice
    /\ op.node_id \in DOMAIN graph_nodes
    /\ op.depth = 1
    /\ WithinHops(op.node_id, 2) # WithinHops(op.node_id, 1)
    /\ Len(out.ret) >= 2

\* C10: for the same per-file facts, building with the files processed in any
\* permutation of their order yields the same edge set and the same node set
C10_BuildOrderIndependent ==
    pc = "built" =>
        \A order \in Orders(DOMAIN disk) :
            /\ ~build_graph(NewInstance(DOMAIN disk), disk, order).raised
            /\ build_graph(NewInstance(DOMAIN disk), disk, order).edges = graph_edges
            /\ build_graph(NewInstance(DOMAIN disk), disk, order).nodes = graph_nodes

\* C10: a build of two files in which a call in the file processed first has
\* its callee in the file processed after it, and has its edge
C10_EdgeToLaterFile ==
    /\ pc = "built"
    /\ walk_sources(DOMAIN disk) = <<PathA, PathB>>
    /\ <<NodeId(PathA, NameF), NodeId(PathB, NameG)>> \in graph_edges

\* the names and the paths the source trees use
AllNames == {NameF, NameG, NameH, NameK, NameX}
AllPaths == {PathA, PathB, PathZ}

\* every (file path, function name) among the definitions of the source tree
DiskPairs == UNION {{<<q, d.name>> : d \in Range(disk[q].defs)} : q \in DOMAIN disk}

\* C11: in every state during and after build_graph, both endpoints of every
\* edge are keys of the symbol table and nodes that carry a definition; adding
\* an edge never creates a node
C11_EdgesJoinRegisteredNodes ==
    /\ \A e \in graph_edges : \A n \in {e[1], e[2]} :
          /\ n \in DOMAIN symbol_table
          /\ n \in DOMAIN graph_nodes
          /\ graph_nodes[n].data = Some(symbol_table[n])
    /\ DOMAIN graph_nodes = DOMAIN symbol_table

\* C11: phase 2 has added an edge into another file and has files left
C11_EdgeAddedDuringBuild ==
    /\ pc = "phase2"
    /\ todo # <<>>
    /\ <<NodeId(PathA, NameF), NodeId(PathB, NameG)>> \in graph_edges

\* the import bindings of file q that bind the name
BindingsOf(q, name) ==
    SelectSeq(GetOr(file_imports, q), LAMBDA imp : imp.name = name)

\* the name is bound in file q, by bare specifiers only, and not defined there
OnlyBareBound(q, name) ==
    /\ BindingsOf(q, name) # <<>>
    /\ \A i \in DOMAIN BindingsOf(q, name) : Head(BindingsOf(q, name)[i].path) # "."
    /\ \A i \in DOMAIN GetOr(file_functions, q) : file_functions[q][i].name # name

\* C12: a call whose callee is bound in its file only by imports whose
\* specifier does not begin with '.', and is not defined in the file, resolves
\* to no node and gets no edge
C12_BareImportNeverResolves ==
    \A q \in DOMAIN file_calls : \A i \in DOMAIN file_calls[q] :
        OnlyBareBound(q, file_calls[q][i].name) =>
            /\ resolve_call_via_imports(Self, q, file_calls[q][i].name) = None
            /\ \A e \in graph_edges :
                  ~ (/\ e[1] \in {NodeId(q, n) : n \in AllNames}
                     /\ e[2] \in {NodeId(r, file_calls[q][i].name) : r \in AllPaths})

\* C12: a build is over in which f of /a.js calls g, /a.js binds g by the bare
\* specifier "b.js", /b.js exists and defines g
C12_BareImportOfExistingFile ==
    /\ pc = "built"
    /\ OnlyBareBound(PathA, NameG)
    /\ BindingsOf(PathA, NameG)[1].path = <<"b", ".", "j", "s">>
    /\ FunctionCall(NameG, PathA, 2) \in Range(file_calls[PathA])
    /\ NodeId(PathA, NameF) \in DOMAIN graph_nodes
    /\ NodeId(PathB, NameG) \in DOMAIN graph_nodes

\* the edge target phase 2 uses for a call of the name in file q
Phase2Target(q, name) ==
    IF \E i \in DOMAIN GetOr(file_functions, q) : file_functions[q][i].name = name
    THEN Some(NodeId(q, name))
    ELSE resolve_call_via_imports(Self, q, name)

\* the call sites of file q that lie inside a function definition of q
EnclosedCalls(q) ==
    SelectSeq(file_calls[q], LAMBDA c : find_enclosing_function(Self, q, c.line).tag = "some")

\* the edges of the call sites that have an enclosing function and a callee
\* that resolves
ResolvableEdges ==
    UNION {{<<NodeId(q, find_enclosing_function(Self, q, c.line).val),
              Phase2Target(q, c.name).val>> :
               c \in {x \in Range(EnclosedCalls(q)) : Phase2Target(q, x.name).tag = "some"}} :
           q \in DOMAIN file_calls}

\* C14: in phase 2 a call site outside every function definition, and a call
\* site whose callee resolves neither in its file nor through an import, add no
\* edge and no node, raise no error, and leave the remaining call sites of the
\* same and later files to be resolved
C14_UnresolvedCallsDropped ==
    /\ ~ (pc = "raised" /\ op = NoOp)
    /\ pc = "built" =>
          /\ graph_edges = ResolvableEdges
          /\ DOMAIN graph_nodes = {NodeId(pr[1], pr[2]) : pr \in DiskPairs}

\* the string of the fallback branch, spelled out
FallbackText(route) ==
    <<"/", "/", " ", "F", "i", "l", "e", ":", " ">> \o route.file_path
    \o <<",", " ", "L", "i", "n", "e", "s", " ">> \o IntToStr(route.handler_start_line)
    \o <<"-">> \o IntToStr(route.handler_end_line) \o <<"\n">>
    \o route.handler_source \o <<"\n">>

\* C16: for an entry point whose handler range holds only call sites that
\* resolve to no registered node, get_route_context returns a string equal to
\* the entry point's handler source text
C16_FallbackEqualsHandlerSource ==
    (ReturnedContext /\ ResolvedCalls(op.route) = <<>>) =>
        out.text = op.route.handler_source

\* C16, amended: for such an entry point get_route_context returns the line
\* "// File: <path>, Lines <start>-<end>", the handler source text verbatim and
\* a newline
C16_FallbackIsHeaderThenSource ==
    (ReturnedContext /\ ResolvedCalls(op.route) = <<>>) =>
        /\ out.text = FallbackText(op.route)
        /\ Contains(out.text, op.route.handler_source)
        /\ out.text # op.route.handler_source

\* C16: get_route_context has returned for a handler whose only call, of the
\* undefined x, cannot resolve, with the largest depth
C16_OnlyUnresolvedCall ==
    /\ ReturnedContext
    /\ op.depth = MaxDepth
    /\ InRangeCalls(op.route) = <<FunctionCall(NameX, PathA, 6)>>
    /\ ResolvedCalls(op.route) = <<>>

\* C18: after build_graph, node_count is the number of distinct (file path,
\* function name) pairs among the definitions of the processed files, and the
\* names carried by the nodes are the names of those definitions
C18_NodeCountIsDistinctPairs ==
    pc \in {"built", "returned"} =>
        /\ node_count(Self) = Cardinality(DiskPairs)
        /\ {graph_nodes[n].data.val.name : n \in DOMAIN graph_nodes}
              = {pr[2] : pr \in DiskPairs}

\* C18: a build is over of two files with four definitions, f twice in /a.js,
\* f and g in /b.js: three nodes
C18_DuplicateDefinitionCountedOnce ==
    /\ pc = "built"
    /\ PathB \in DOMAIN disk
    /\ Len(disk[PathA].defs) = 2 /\ disk[PathA].defs[1].name = disk[PathA].defs[2].name
    /\ Len(disk[PathB].defs) = 2 /\ disk[PathB].defs[1].name # disk[PathB].defs[2].name
    /\ node_count(Self) = 3

\* the part of an identifier after its last ':'
RECURSIVE AfterLastColon(_)
AfterLastColon(id) ==
    IF \A i \in DOMAIN id : id[i] # ":" THEN id
    ELSE AfterLastColon(Tail(id))

\* paths for identifiers, one of them with a ':' in a directory name
IdPaths == AllPaths \cup {<<"/", "c", ":", "/", "a", ".", "j", "s">>, <<"/", "a", ".", "j", "s", ":", "f">>}

\* C19: a node's identifier is its definition's file path, ':', its function
\* name; distinct (file path, name) pairs have distinct identifiers; the name is
\* the part of the identifier after the last ':'
C19_NodeIdFormat ==
    /\ \A n \in DOMAIN graph_nodes :
          /\ n = graph_nodes[n].data.val.file_path \o <<":">> \o graph_nodes[n].data.val.name
          /\ AfterLastColon(n) = graph_nodes[n].data.val.name
    /\ pc \in {"built", "returned"} =>
          \A pr \in DiskPairs :
              Cardinality({n \in DOMAIN graph_nodes :
                              /\ graph_nodes[n].data.val.file_path = pr[1]
                              /\ graph_nodes[n].data.val.name = pr[2]}) = 1
    /\ pc = "new" =>
          \A p1 \in IdPaths, p2 \in IdPaths, n1 \in {NameF, NameG, NameX}, n2 \in {NameF, NameG, NameX} :
              /\ NodeId(p1, n1) = NodeId(p2, n2) => (p1 = p2 /\ n1 = n2)
              /\ AfterLastColon(NodeId(p1, n1)) = n1

\* C19: a build is over in which /a.js and /b.js both define f, and /a.js
\* also g
C19_SameNameInTwoFiles ==
    /\ pc = "built"
    /\ {NodeId(PathA, NameF), NodeId(PathB, NameF), NodeId(PathA, NameG)} \subseteq DOMAIN graph_nodes

\* the instance a fresh DependencyGraph has after build_graph on the tree
FreshBuild == build_graph(NewInstance(DOMAIN disk), disk, walk_sources(DOMAIN disk))

\* C13: after build_graph(F1) and then build_graph(F2) on one instance, the
\* node set, edge set, symbol table and per-file fact stores equal those of a
\* fresh instance after build_graph(F2) alone
C13_RebuildReplacesState ==
    pc = "built" =>
        /\ graph_nodes = FreshBuild.nodes
        /\ graph_edges = FreshBuild.edges
        /\ symbol_table = FreshBuild.symbol_table
        /\ file_functions = FreshBuild.file_functions
        /\ file_calls = FreshBuild.file_calls
        /\ file_imports = FreshBuild.file_imports

\* C15: for every file and callee name, the node get_route_context resolves
\* for a call of the name in the file is the node (or the absence of a node)
\* that phase 2 of the build uses as the edge target of such a call
C15_ResolutionAgrees ==
    pc = "built" =>
        \A q \in AllPaths, c \in AllNames :
            resolve_in_context(Self, q, c) = Phase2Target(q, c)

\* C17: on every built graph, with self-loops and longer cycles, and for every
\* depth, every get_slice call and every get_route_context call eventually
\* returns
C17_QueriesReturn == (pc \in {"slicing", "collecting"}) ~> (pc = "returned")

\* C17: a search with levels left stands at a node all of whose successors were
\* visited, the source among them: a cycle has led back
C17_SearchBackAtVisitedNode ==
    /\ pc = "slicing"
    /\ frame.limit > 0
    /\ frame.frontier # {}
    /\ \A n \in frame.frontier : \E e \in graph_edges : e[1] = n
    /\ {e[2] : e \in {d \in graph_edges : d[1] \in frame.frontier}} \subseteq frame.seen
    /\ Cardinality(frame.seen) >= 2

\* the findings of the audit results, one after the other
FindingsInOrder(results) ==
    [n \in 1..Len(all_findings(results)) |->
        LET a == CHOOSE a \in DOMAIN results :
                    \E k \in DOMAIN results[a].findings :
                        n = k + Len(all_findings(SubSeq(results, 1, a - 1)))
        IN results[a].findings[n - Len(all_findings(SubSeq(results, 1, a - 1)))]]

\* the level the claim gives a severity
LevelOf(severity) ==
    CASE severity \in {"critical", "high"} -> "error"
      [] severity = "medium" -> "warning"
      [] severity \in {"low", "info"} -> "note"

\* C20: generate emits one result per finding, in the order of the findings
\* across the audit results; a result's level is error for critical and high,
\* warning for medium, note for low and info; its ruleId is the predefined rule
\* of the finding's vulnerability type, its ruleIndex the position of that rule
\* in the emitted rules array
C20_OneResultPerFinding ==
    pc = "reported" =>
        /\ Len(out.sarif.results) = Len(FindingsInOrder(op.results))
        /\ \A i \in DOMAIN out.sarif.results :
              /\ out.sarif.results[i].message
                    = FindingsInOrder(op.results)[i].title \o ": "
                        \o FindingsInOrder(op.results)[i].description
              /\ out.sarif.results[i].startLine = FindingsInOrder(op.results)[i].start_line
              /\ out.sarif.results[i].level = LevelOf(FindingsInOrder(op.results)[i].severity)
              /\ \E k \in DOMAIN RULES :
                    /\ RULES[k].vuln_type = FindingsInOrder(op.results)[i].vuln_type
                    /\ out.sarif.results[i].ruleId = RULES[k].id
                    /\ out.sarif.results[i].ruleIndex = k - 1
                    /\ out.sarif.rules[k].id = out.sarif.results[i].ruleId

\* C20: a report of two audit results with three findings, of severity info,
\* medium and high, the second of the last vulnerability type
C20_ThreeFindingsReported ==
    /\ pc = "reported"
    /\ Len(op.results) = 2
    /\ Len(out.sarif.results) = 3
    /\ out.sarif.results[1].level = "note"
    /\ out.sarif.results[2].level = "warning"
    /\ out.sarif.results[2].ruleId = "LG005"
    /\ FindingsInOrder(op.results)[3].severity = "high"
    /\ out.sarif.results[3].level = "error"

\* the remediations handed to generate, none when omitted
Supplied(remediations) ==
    IF remediations.tag = "some" THEN Range(remediations.val) ELSE {}

\* C21: a result carries 'fixes' if and only if a remediation with the file
\* path and the title of its finding was supplied; with remediations omitted or
\* an empty list no result has 'fixes'
C21_FixesIffRemediationSupplied ==
    pc = "reported" =>
        /\ \A i \in DOMAIN out.sarif.results :
              (out.sarif.results[i].fixes # None)
                  <=> \E r \in Supplied(op.remediations) :
                         /\ r.file_path = FindingsInOrder(op.results)[i].file_path
                         /\ r.finding_title = FindingsInOrder(op.results)[i].title
        /\ (op.remediations = None \/ op.remediations = Some(<<>>))
              => \A i \in DOMAIN out.sarif.results : out.sarif.results[i].fixes = None

\* C21: a report in which a finding with a remediation of its file and title
\* has 'fixes' and a finding of the same title in another file has none
C21_FixesForOneOfTwoSameTitle ==
    /\ pc = "reported"
    /\ Len(out.sarif.results) = 3
    /\ out.sarif.results[1].fixes = None
    /\ out.sarif.results[3].fixes # None
    /\ FindingsInOrder(op.results)[1].title = FindingsInOrder(op.results)[3].title

\* _find_enclosing_function has returned to its caller
ReturnedEnclosing == pc = "returned" /\ op.name = "_find_enclosing_function"

\* the definitions of the file whose inclusive range contains the line
Containing(file_path, line) ==
    {d \in Range(GetOr(file_functions, file_path)) : d.start_line <= line /\ line <= d.end_line}

\* C22: _find_enclosing_function returns the name of a definition of the file
\* that contains the line and has the smallest span endLine - startLine among
\* those that do, and returns none exactly when no definition contains the line
C22_InnermostEnclosing ==
    ReturnedEnclosing =>
        /\ (out.ret = None) <=> (Containing(op.file_path, op.line) = {})
        /\ Containing(op.file_path, op.line) # {} =>
              \E d \in Containing(op.file_path, op.line) :
                  /\ out.ret = Some(d.name)
                  /\ \A e \in Containing(op.file_path, op.line) :
                        d.end_line - d.start_line <= e.end_line - e.start_line

\* C22: the line is inside a nested function that the parser listed before its
\* outer function, and the nested function is returned
C22_NestedListedFirst ==
    /\ ReturnedEnclosing
    /\ Len(GetOr(file_functions, op.file_path)) = 2
    /\ Cardinality(Containing(op.file_path, op.line)) = 2
    /\ out.ret = Some(file_functions[op.file_path][1].name)
    /\ file_functions[op.file_path][1].end_line - file_functions[op.file_path][1].start_line
          < file_functions[op.file_path][2].end_line - file_functions[op.file_path][2].start_line

\* the call sites of file q inside a function of q whose callee name is
\* defined in q
LocalCalls(q) ==
    {c \in Range(EnclosedCalls(q)) : \E d \in Range(GetOr(file_functions, q)) : d.name = c.name}

\* C23: no edge exists before every file has finished phase 1; a call whose
\* callee name is defined in the caller's own file has its edge to the node of
\* that file and adds no edge to a node of another file, even when an import
\* binding of that name resolves to a registered definition elsewhere
C23_SameFileBeforeImports ==
    /\ graph_edges # {} =>
          /\ pc \notin {"new", "phase1"}
          /\ \A p \in DOMAIN disk : p \in DOMAIN file_functions
    /\ \A q \in DOMAIN file_calls : \A c \in LocalCalls(q) :
          /\ \A p \in AllPaths \ {q} :
                <<NodeId(q, find_enclosing_function(Self, q, c.line).val), NodeId(p, c.name)>>
                    \notin graph_edges
          /\ pc = "built" =>
                <<NodeId(q, find_enclosing_function(Self, q, c.line).val), NodeId(q, c.name)>>
                    \in graph_edges

\* C23: /a.js defines g, calls it inside f, and imports g from /b.js, where a
\* definition of g is registered; the build has ended
C23_LocalAndImportedCallee ==
    /\ pc = "built"
    /\ \E c \in LocalCalls(PathA) : c.name = NameG /\ c.line = 2
    /\ resolve_call_via_imports(Self, PathA, NameG) = Some(NodeId(PathB, NameG))
    /\ <<NodeId(PathA, NameF), NodeId(PathA, NameG)>> \in graph_edges

\* the path with an extension appended to its last component
AppendExtension(parts, ext) ==
    IF parts = <<>> THEN <<ext>>
    ELSE Append(Parent(parts), parts[Len(parts)] \o ext)

\* the probes the claim lists for a specifier written in a file
ClaimedProbes(current_file, import_path) ==
    LET candidate == ResolveParts(Parent(PathOf(current_file)) \o PathOf(import_path), <<>>)
    IN <<candidate,
         AppendExtension(candidate, <<".", "j", "s">>),
         AppendExtension(candidate, <<".", "t", "s">>),
         Append(candidate, <<"i", "n", "d", "e", "x", ".", "j", "s">>),
         Append(candidate, <<"i", "n", "d", "e", "x", ".", "t", "s">>)>>

\* the first of the probes that is a file of the tree
FirstExisting(probes) ==
    IF \A i \in DOMAIN probes : PathStr(probes[i]) \notin DOMAIN disk THEN None
    ELSE Some(probes[CHOOSE i \in DOMAIN probes :
                        /\ PathStr(probes[i]) \in DOMAIN disk
                        /\ \A j \in 1..(i - 1) : PathStr(probes[j]) \notin DOMAIN disk])

\* the file the claimed probes choose has no registered definition of the name
NoDefinitionChosen(file_path, imp, call_name) ==
    \/ FirstExisting(ClaimedProbes(file_path, imp.path)) = None
    \/ NodeId(PathStr(FirstExisting(ClaimedProbes(file_path, imp.path)).val), call_name)
          \notin DOMAIN symbol_table

\* C24: for a relative specifier _resolve_import_path returns the first
\* existing file among the literal joined path, the path with .js and .ts
\* appended (the specifier's own last dotted component kept), and the index
\* files of the path as a directory; when the file chosen has no registered
\* definition of the callee's name, resolution returns none without raising
C24_ProbesAppendExtensions ==
    /\ (pc \in {"returned", "raised"} /\ op.name = "_resolve_import_path"
            /\ StartsWith(op.import_path, <<".">>))
          => out.ret = FirstExisting(ClaimedProbes(op.current_file, op.import_path))
    /\ (pc \in {"returned", "raised"} /\ op.name = "_resolve_call_via_imports"
            /\ \A imp \in Range(BindingsOf(op.file_path, op.call_name)) :
                  NoDefinitionChosen(op.file_path, imp, op.call_name))
          => out.ret = None

\* the call sites that have an enclosing function and a callee that resolves
ResolvedCallSites ==
    UNION {{<<q, i>> : i \in {j \in DOMAIN EnclosedCalls(q) :
                                Phase2Target(q, EnclosedCalls(q)[j].name).tag = "some"}} :
           q \in DOMAIN file_calls}

\* C25: call sites that resolve to the same (caller, callee) pair produce one
\* edge, adding an edge that exists changes nothing, and edge_count is the
\* number of distinct pairs resolved in phase 2, a self-recursive call being one
\* self-loop edge
C25_EdgesFormASet ==
    /\ \A e \in graph_edges : AddEdge(Self, e[1], e[2]) = Self
    /\ (pc = "returned" /\ op.name = "edge_count") =>
          /\ out.ret = Cardinality(ResolvableEdges)
          /\ graph_edges = ResolvableEdges

\* C25: edge_count is 2 for three resolving call sites, two calls of g inside
\* f and a call of f inside f
C25_RepeatedCallAndSelfLoop ==
    /\ pc = "returned" /\ op.name = "edge_count"
    /\ out.ret = 2
    /\ Cardinality(ResolvedCallSites) = 3
    /\ graph_edges = {<<NodeId(PathA, NameF), NodeId(PathA, NameG)>>,
                      <<NodeId(PathA, NameF), NodeId(PathA, NameF)>>}

\* the definition of the name that file q lists last
LastDefinition(q, name) ==
    disk[q].defs[CHOOSE i \in DOMAIN disk[q].defs :
                    /\ disk[q].defs[i].name = name
                    /\ \A j \in DOMAIN disk[q].defs : disk[q].defs[j].name = name => j <= i]

\* C26: definitions of one file that share a name are one node, and the one
\* registered later is the one stored: after the build the symbol table entry
\* and the node payload are the later definition, and a slice returned by
\* get_slice holds the later definition of each of its nodes, once, and never
\* the earlier one
C26_LaterDefinitionStored ==
    /\ pc \in {"built", "returned"} =>
          \A pr \in DiskPairs :
              /\ symbol_table[NodeId(pr[1], pr[2])] = LastDefinition(pr[1], pr[2])
              /\ graph_nodes[NodeId(pr[1], pr[2])].data = Some(LastDefinition(pr[1], pr[2]))
    /\ ReturnedSlice =>
          /\ \A i \in DOMAIN out.ret :
                out.ret[i] = LastDefinition(out.ret[i].file_path, out.ret[i].name)
          /\ \A i, j \in DOMAIN out.ret :
                (out.ret[i].file_path = out.ret[j].file_path /\ out.ret[i].name = out.ret[j].name)
                    => i = j

\* C26: get_slice returned the slice of /a.js:f, a name /a.js defines on lines
\* 1-2 and again on lines 3-4, with the definition of lines 3-4 in it
C26_SliceOfRedefinedFunction ==
    /\ ReturnedSlice
    /\ op.node_id = NodeId(PathA, NameF)
    /\ Len(disk[PathA].defs) = 2
    /\ disk[PathA].defs[1].name = NameF /\ disk[PathA].defs[2].name = NameF
    /\ disk[PathA].defs[1] # disk[PathA].defs[2]
    /\ \E i \in DOMAIN out.ret : out.ret[i] = disk[PathA].defs[2]

\* text.split("\n")
NewlineAt(text, k) ==
    CHOOSE i \in DOMAIN text :
        text[i] = "\n" /\ Cardinality({j \in 1..(i - 1) : text[j] = "\n"}) = k - 1

SplitLines(text) ==
    [k \in 1..(Cardinality({i \in DOMAIN text : text[i] = "\n"}) + 1) |->
        SubSeq(text,
               IF k = 1 THEN 1 ELSE NewlineAt(text, k - 1) + 1,
               IF k = Cardinality({i \in DOMAIN text : text[i] = "\n"}) + 1 THEN Len(text)
               ELSE NewlineAt(text, k) - 1)]

\* what get_route_context rendered: the collected definitions, or the entry
\* point in the fallback
Blocks ==
    IF out.all_defs = <<>>
    THEN <<[file_path |-> op.route.file_path, start_line |-> op.route.handler_start_line,
            end_line |-> op.route.handler_end_line, source |-> op.route.handler_source]>>
    ELSE out.all_defs

\* the header line of a block, then the lines of its source text
BlockLines(b) ==
    <<<<"/", "/", " ", "F", "i", "l", "e", ":", " ">> \o b.file_path
        \o <<",", " ", "L", "i", "n", "e", "s", " ">> \o IntToStr(b.start_line)
        \o <<"-">> \o IntToStr(b.end_line)>>
    \o SplitLines(b.source)

\* the lines of the blocks, one empty line between two blocks
RECURSIVE BlocksLines(_)
BlocksLines(blocks) ==
    IF Len(blocks) = 1 THEN BlockLines(blocks[1])
    ELSE BlockLines(blocks[1]) \o << <<>> >> \o BlocksLines(Tail(blocks))

\* C27: the string get_route_context returns is the blocks in collection order,
\* each a header line naming the file path and the start-end line range followed
\* by the source text verbatim, one blank line between consecutive blocks, and as
\* many header lines as collected definitions (one in the fallback)
C27_BlocksInCollectionOrder ==
    ReturnedContext =>
        /\ SplitLines(out.text) = BlocksLines(Blocks) \o << <<>> >>
        /\ Cardinality({i \in DOMAIN SplitLines(out.text) :
                           StartsWith(SplitLines(out.text)[i],
                                      <<"/", "/", " ", "F", "i", "l", "e", ":", " ">>)})
              = Len(Blocks)

\* C27: get_route_context rendered two definitions of two lines each
C27_TwoBlocksRendered ==
    /\ ReturnedContext
    /\ Len(out.all_defs) = 2
    /\ Len(SplitLines(out.text)) = 8

\* C28: get_slice, get_route_context, node_count and edge_count leave the built
\* state unchanged, whatever their arguments and however many calls are made:
\* the nodes and their payloads, the edges, the symbol table and the per-file
\* fact stores are the same after a call as before
C28_QueriesLeaveStateUnchanged ==
    [][(pc \in {"built", "returned"}) =>
           (UNCHANGED <<graph_nodes, graph_edges, symbol_table, file_functions, file_calls,
                        file_imports, file_keys>>)]_vars

\* C28: get_slice has returned for a node id the graph does not hold, on a
\* graph that has edges
C28_UnknownNodeQueried ==
    /\ ReturnedSlice
    /\ op.node_id \notin DOMAIN graph_nodes
    /\ graph_edges # {}
    /\ op.depth = MaxDepth

\* the model call ended
AuditEnded == op.name = "audit_route" /\ pc \in {"returned", "raised"}

\* the response's text block is a JSON object that matches the schema, bare or
\* between fences
AnswersWithResult ==
    /\ op.response.tag = "Message"
    /\ \E i \in DOMAIN op.response.content :
          /\ op.response.content[i].type = "text"
          /\ \E j \in DOMAIN op.response.content[i].text :
                op.response.content[i].text[j] \in DOMAIN ModelAnswers

\* C29: audit_route returns an AuditResult for every outcome of the model call
\* and lets no exception escape; on an API error, on text that is not valid
\* JSON (a text that opens with a code fence, with or without a newline after
\* it, and a response without a text block included) and on JSON that does not
\* match the schema, the result is labelled '<METHOD> <pattern>' and has no
\* findings
C29_AlwaysReturnsAuditResult ==
    AuditEnded =>
        /\ pc = "returned"
        /\ ~out.raised
        /\ ~AnswersWithResult =>
              out.ret = AuditResult(op.route.http_method \o " " \o op.route.route_pattern, <<>>)

\* the audit results the scan holds when it exits
ScanResults == IF frame.tag = "scan" THEN frame.results ELSE <<>>

\* C30: scan exits with 1 if and only if a finding among all audit results has
\* severity critical or high, with 0 otherwise (no source files, no routes, no
\* findings, or only medium, low and info findings), and whenever routes were
\* audited the SARIF report was written before the exit
C30_ExitCodeIffCriticalOrHigh ==
    pc = "exited" =>
        /\ out.exit_code \in {0, 1}
        /\ (out.exit_code = 1)
              <=> \E i \in DOMAIN ScanResults : \E j \in DOMAIN ScanResults[i].findings :
                     ScanResults[i].findings[j].severity \in {"critical", "high"}
        /\ ScanResults # <<>> => frame.written

============================================================================
